---- MODULE Spec2Model ----
(***************************************************************************)
(* A model of jit_calc: an interactive arithmetic expression evaluator     *)
(* with three execution modes (tree walk, bytecode VM, x86/x87 JIT).       *)
(*                                                                         *)
(* Doubles are symbolic terms:                                             *)
(*   <<"num", m, s>>   the constant m * 10^-s                              *)
(*   <<"+", a, b>>     a + b   (likewise "-", "*", "/")                    *)
(*   <<"pow", a, b>>   pow(a, b)                                           *)
(*   <<"garbage">>     an indeterminate value                              *)
(* AST nodes are <<"ValueNode", v>> and <<"PlusNode", left, right>>, ...   *)
(***************************************************************************)
EXTENDS Integers, Sequences, FiniteSets, TLC

VARIABLES
    pc,        \* position of the driver (main) in the pipeline
    tree,      \* the AST handed to the back end
    compiler,  \* the Compiler object: code, sp, stackSize
    func,      \* the Function returned by Compiler::compile
    ncomp,     \* number of Compiler::compile calls made so far
    jit,       \* locals of VM::compile and the x86::Compiler it drives
    vm,        \* the VM object: stack, stackSize, code
    run,       \* locals of VM::run
    cpu,       \* the machine while the native function runs
    results,   \* what each execution mode returned
    front,     \* lexer/parser driver: input, tokens, parse result
    repl       \* the REPL of main: stdin, output, and the objects it owns

vars == <<pc, tree, compiler, func, ncomp, jit, vm, run, cpu, results, front, repl>>

(***************************************************************************)
(* Bounds of the model.                                                    *)
(***************************************************************************)
MaxLeaves == 3
MaxCompiles == 2
MaxInput == 3
MaxTokens == 5
\* Prompts written in a session.
MaxPrompts == 4
\* Calls of VM::run after one VM::allocate.
MaxRuns == 3

(***************************************************************************)
(* Symbolic doubles.                                                       *)
(***************************************************************************)
Num(k) == <<"num", k, 0>>
Garbage == <<"garbage">>

\* The arithmetic of the evaluator: + - * / and pow of <cmath>.
Operators == {"+", "-", "*", "/", "pow"}

\* sizeof(double)
SizeofDouble == 8

(***************************************************************************)
(* VM::ByteCode (enum, lines 25-33).                                       *)
(***************************************************************************)
Push == 0
Add == 1
Sub == 2
Mul == 3
Div == 4
Pow == 5
Ret == 6

\* A byte of the code vector: a plain byte, or byte i of the double v.
Byte(n) == <<"b", n>>
DoubleByte(v, i) == <<"d", v, i>>
DoubleBytes(v) == [i \in 1..SizeofDouble |-> DoubleByte(v, i - 1)]

\* *reinterpret_cast<const double *>(p): the double whose 8 bytes start at
\* index i (1-based) of code; an indeterminate value if they are not the
\* bytes of one double.
ReadDouble(code, i) ==
    IF /\ i + SizeofDouble - 1 <= Len(code)
       /\ code[i][1] = "d"
       /\ \A j \in 0..(SizeofDouble - 1) : code[i + j] = DoubleByte(code[i][2], j)
    THEN code[i][2]
    ELSE Garbage

(***************************************************************************)
(* AST (lines 176-348).                                                    *)
(***************************************************************************)
BinaryNodes == {"PlusNode", "MinusNode", "MultiplyNode", "DivideNode", "PowerNode"}

ValueNode(v) == <<"ValueNode", v>>
BinaryNode(type, left, right) == <<type, left, right>>
NoTree == <<"none">>

\* The arithmetic each node applies in eval().
NodeOperator(type) ==
    CASE type = "PlusNode" -> "+"
      [] type = "MinusNode" -> "-"
      [] type = "MultiplyNode" -> "*"
      [] type = "DivideNode" -> "/"
      [] type = "PowerNode" -> "pow"

\* The opcode each node generates in compile().
NodeByteCode(type) ==
    CASE type = "PlusNode" -> Add
      [] type = "MinusNode" -> Sub
      [] type = "MultiplyNode" -> Mul
      [] type = "DivideNode" -> Div
      [] type = "PowerNode" -> Pow

\* Node::eval
RECURSIVE NodeEval(_)
NodeEval(n) ==
    IF n[1] = "ValueNode"
    THEN n[2]
    ELSE <<NodeOperator(n[1]), NodeEval(n[2]), NodeEval(n[3])>>

(***************************************************************************)
(* Compiler (lines 185-219).                                               *)
(***************************************************************************)
\* gen(VM::ByteCode)
CompilerGen(c, value) == [c EXCEPT !.code = Append(@, Byte(value))]

\* gen(double)
CompilerGenDouble(c, value) == [c EXCEPT !.code = @ \o DoubleBytes(value)]

\* Mutant of push(): stackSize is raised before sp is advanced.
CompilerPushStale(c) ==
    [c EXCEPT !.sp = c.sp + 8,
              !.stackSize = IF c.stackSize > c.sp THEN c.stackSize ELSE c.sp]

\* push()
CompilerPush(c) ==
    LET sp == c.sp + 8
    IN  [c EXCEPT !.sp = sp,
                  !.stackSize = IF c.stackSize > sp THEN c.stackSize ELSE sp]

\* pop()
CompilerPop(c) == [c EXCEPT !.sp = @ - 8]

\* Node::compile(Compiler *)
RECURSIVE NodeCompile(_, _)
NodeCompile(n, c) ==
    IF n[1] = "ValueNode"
    THEN CompilerPush(CompilerGenDouble(CompilerGen(c, Push), n[2]))
    ELSE \* left->compile(c), and then right->compile(c)
         CHOOSE done \in {CompilerPop(CompilerGen(NodeCompile(n[3], left), NodeByteCode(n[1]))) :
                             left \in {NodeCompile(n[2], c)}} : TRUE

\* Mutant of the reset: stackSize keeps the value of the last compile.
CompilerResetKeepsStackSize(c) == [code |-> <<>>, sp |-> 0, stackSize |-> c.stackSize]

\* The first statements of Compiler::compile: code.clear(); sp = 0; stackSize = 0
CompilerReset(c) == [code |-> <<>>, sp |-> 0, stackSize |-> 0]

\* Compiler::compile: the object after the call; the Function it returns is
\* { code, stackSize }.
CompilerCompile(c, t) == CompilerGen(NodeCompile(t, CompilerReset(c)), Ret)

FunctionOf(c) == [code |-> c.code, stackSize |-> c.stackSize]

(***************************************************************************)
(* VM::allocate, VM::setCode, VM::run (lines 35-90).                       *)
(* run's locals are ip (offset into code) and sp (index into stack; the    *)
(* stack is top-down, sp = stackSize is one past its end).                 *)
(***************************************************************************)
\* allocate(size): new double[size] is not initialised.  `delete stack`
\* (line 36) releases the array of the previous call, none on the first
\* call (stack is nullptr); doubles have no destructor to run.
VMAllocate(v, size) ==
    [v EXCEPT !.stack = [i \in 1..size |-> Garbage], !.stackSize = size]

\* setCode(code)
VMSetCode(v, code) == [v EXCEPT !.code = code]

\* Mutant of the entry of run(): sp starts one slot below the top.
VMRunEntryBelowTop(v) ==
    [ip |-> 0, sp |-> v.stackSize - 1, stack |-> v.stack, status |-> "running",
     value |-> Garbage]

\* The locals of run() on entry: ip = code; sp = stack + stackSize.
VMRunEntry(v) ==
    [ip |-> 0, sp |-> v.stackSize, stack |-> v.stack, status |-> "running",
     value |-> Garbage]

\* A slot index the allocation covers.
InStack(v, i) == i >= 0 /\ i < v.stackSize

\* The arithmetic of each binary opcode (the switch of run()).
ByteCodeOperator(b) ==
    CASE b = Add -> "+"
      [] b = Sub -> "-"
      [] b = Mul -> "*"
      [] b = Div -> "/"
      [] b = Pow -> "pow"

\* One iteration of the loop of run(). status "ub" stands for an access
\* outside the code or outside the stack (undefined behaviour).
VMRunStep(v, r) ==
    IF r.ip >= Len(v.code) THEN [r EXCEPT !.status = "ub"]
    ELSE
    LET b == v.code[r.ip + 1]
        ip == r.ip + 1
    IN  CASE b = Byte(Push) ->
               IF InStack(v, r.sp - 1)
               THEN [r EXCEPT !.ip = ip + SizeofDouble,
                              !.sp = r.sp - 1,
                              !.stack[r.sp] = ReadDouble(v.code, ip + 1)]
               ELSE [r EXCEPT !.status = "ub"]
          [] b \in {Byte(Add), Byte(Sub), Byte(Mul), Byte(Div), Byte(Pow)} ->
               IF InStack(v, r.sp) /\ InStack(v, r.sp + 1)
               THEN [r EXCEPT !.ip = ip,
                              !.sp = r.sp + 1,
                              !.stack[r.sp + 2] =
                                  <<ByteCodeOperator(b[2]), r.stack[r.sp + 2],
                                    r.stack[r.sp + 1]>>]
               ELSE [r EXCEPT !.status = "ub"]
          [] b = Byte(Ret) ->
               IF InStack(v, r.sp)
               THEN [r EXCEPT !.ip = ip, !.status = "returned",
                              !.value = r.stack[r.sp + 1]]
               ELSE [r EXCEPT !.status = "ub"]
          [] OTHER -> [r EXCEPT !.ip = ip, !.status = "invalid byte code"]

\* Values on the operand stack of run().
RunDepth(v, r) == v.stackSize - r.sp

(***************************************************************************)
(* x86::Compiler, the assembler VM::compile drives (compiler.h, described  *)
(* in sections 4.6 and 4.8 of the specification).  Its buffer is a         *)
(* sequence of items, one per instruction or pool constant:                *)
(*   op      mnemonic, or "const" for a pool constant                      *)
(*   base    base register of a memory operand ("none" if there is none)   *)
(*   disp    displacement of the memory operand                            *)
(*   sym     symbol the 32-bit field of the item refers to, or "none"      *)
(*   target  the value patched for sym: <<"unresolved">> until relocate    *)
(*   val     the double of a pool constant                                 *)
(***************************************************************************)
NoValue == <<"na">>
Unresolved == <<"unresolved">>
IntTarget(n) == <<"int", n>>
AddrTarget(region, off) == <<"addr", region, off>>
FnTarget(name) == <<"fn", name>>

Instr(op, base, disp, sym) ==
    [op |-> op, base |-> base, disp |-> disp, sym |-> sym,
     target |-> IF sym = "none" THEN NoValue ELSE Unresolved, val |-> NoValue]

\* Encoded length of an item in bytes.
ItemSize(i) ==
    CASE i.op = "const" -> SizeofDouble
      [] i.op \in {"push", "leave", "ret"} -> 1
      [] i.op = "mov" -> 2
      [] i.op = "sub" -> 6
      [] i.op = "call" -> 5
      [] OTHER ->   \* x87 instruction with a memory operand
           IF i.sym # "none" THEN 6
           ELSE (IF i.base = "ESP" THEN 3 ELSE 2)
                + (IF i.disp = 0 /\ i.base # "EBP" THEN 0
                   ELSE IF i.disp >= -128 /\ i.disp <= 127 THEN 1 ELSE 4)

\* Length of the buffer in bytes: the lengths of its items, summed by halves.
RECURSIVE BufferSize(_)
BufferSize(items) ==
    IF items = <<>> THEN 0
    ELSE IF Len(items) = 1 THEN ItemSize(items[1])
    ELSE LET h == Len(items) \div 2
         IN  BufferSize(SubSeq(items, 1, h)) + BufferSize(SubSeq(items, h + 1, Len(items)))

\* A fresh x86::Compiler.
X86Compiler == [code |-> <<>>, relocated |-> {}]

\* Appending one instruction to the buffer.
X86Emit(c, i) == [c EXCEPT !.code = Append(@, i)]

\* constant(double): appends the double at the tail of the buffer.
X86Constant(c, d) ==
    [c EXCEPT !.code = Append(@, [Instr("const", "none", 0, "none") EXCEPT !.val = d])]

\* relocate(name, value): patches every pending reference to the symbol.
X86Relocate(c, name, value) ==
    [c EXCEPT !.code = [k \in 1..Len(c.code) |->
                          IF c.code[k].sym = name
                          THEN [c.code[k] EXCEPT !.target = value]
                          ELSE c.code[k]],
              !.relocated = @ \cup {name}]

\* Symbols the buffer refers to.
X86Symbols(c) == {c.code[k].sym : k \in 1..Len(c.code)} \ {"none"}

\* References of the buffer that no relocate() call has patched.
X86Pending(c) == {k \in 1..Len(c.code) : c.code[k].target = Unresolved}

\* compileFunction(): the loader copies the buffer into an executable
\* region owned by the returned x86::Function; starts[i] is the offset of
\* item i, in the copy as in the buffer.
X86CompileFunction(c) ==
    [region |-> "exec", code |-> c.code,
     starts |-> [i \in 1..Len(c.code) |-> BufferSize(SubSeq(c.code, 1, i - 1))]]

\* Index (1-based) of the item that starts at offset off of a buffer whose
\* items start at the offsets starts, 0 if no item starts there.
ItemAt(starts, off) ==
    LET at == {i \in 1..Len(starts) : starts[i] = off}
    IN  IF at = {} THEN 0 ELSE CHOOSE i \in at : TRUE

(***************************************************************************)
(* VM::compile(const Function &) (lines 92-171): bytecode to x86.          *)
(* Its locals are ip, stackSize, sp, data and the x86::Compiler c.         *)
(***************************************************************************)
\* c.ref(disp, base): a base-plus-displacement memory operand.
Ref(op, disp, base) == Instr(op, base, disp, "none")

\* c.ref(c.abs("data") + disp): an absolute memory operand on symbol data.
RefAbs(op, sym, disp) == Instr(op, "none", disp, sym)

\* Lines 93-104: the locals on entry and the prologue
\* push EBP; mov ESP, EBP; sub stackSize, ESP.
VMCompileEntry(f) ==
    [ip |-> 0, stackSize |-> f.stackSize, sp |-> 0, data |-> <<>>,
     c |-> X86Emit(X86Emit(X86Emit(X86Compiler,
                 Instr("push", "EBP", 0, "none")),
                 Instr("mov", "EBP", 0, "none")),
                 Instr("sub", "ESP", 0, "stackSize")),
     alive |-> TRUE, status |-> "running", fn |-> [region |-> "none", code |-> <<>>, starts |-> <<>>]]

\* The x87 instruction emitted for each arithmetic opcode (lines 120-134).
ArithInstr(b) ==
    CASE b = Add -> "faddl"
      [] b = Sub -> "fsubrl"
      [] b = Mul -> "fmull"
      [] b = Div -> "fdivrl"

\* Mutant of case Push: every spill goes to the slot [EBP - 8].
VMCompilePushOneSlot(f, j, ip) ==
    LET c1 == IF ip > 1 THEN X86Emit(j.c, Ref("fstpl", -8, "EBP")) ELSE j.c
        c2 == X86Emit(c1, RefAbs("fldl", "data", Len(j.data) * SizeofDouble))
    IN  [j EXCEPT !.c = c2,
                  !.sp = j.sp + 8,
                  !.data = Append(j.data, ReadDouble(f.code, ip + 1)),
                  !.ip = ip + SizeofDouble]

\* case Push (lines 108-118)
VMCompilePush(f, j, ip) ==
    LET c1 == IF ip > 1 THEN X86Emit(j.c, Ref("fstpl", -j.sp, "EBP")) ELSE j.c
        c2 == X86Emit(c1, RefAbs("fldl", "data", Len(j.data) * SizeofDouble))
    IN  [j EXCEPT !.c = c2,
                  !.sp = j.sp + 8,
                  !.data = Append(j.data, ReadDouble(f.code, ip + 1)),
                  !.ip = ip + SizeofDouble]

\* case Add, Sub, Mul, Div (lines 120-134)
VMCompileArith(j, ip, b) ==
    [j EXCEPT !.c = X86Emit(j.c, Ref(ArithInstr(b), -(j.sp - 8), "EBP")),
              !.sp = j.sp - 8,
              !.ip = ip]

\* Mutant of case Pow: the frame size is left as the Function reports it.
VMCompilePowNoBump(j, ip) ==
    LET c1 == X86Emit(j.c, Ref("fldl", -j.sp + 8, "EBP"))
        c2 == X86Emit(c1, Ref("fstpl", 0, "ESP"))
        c3 == X86Emit(c2, Ref("fstpl", 8, "ESP"))
        c4 == X86Emit(c3, Instr("call", "none", 0, "pow"))
    IN  [j EXCEPT !.c = c4, !.sp = j.sp - 8, !.ip = ip]

\* case Pow (lines 136-144)
VMCompilePow(j, ip) ==
    LET c1 == X86Emit(j.c, Ref("fldl", -j.sp + 8, "EBP"))
        c2 == X86Emit(c1, Ref("fstpl", 0, "ESP"))
        c3 == X86Emit(c2, Ref("fstpl", 8, "ESP"))
        c4 == X86Emit(c3, Instr("call", "none", 0, "pow"))
    IN  [j EXCEPT !.c = c4,
                  !.stackSize = IF j.stackSize > j.sp + 16 THEN j.stackSize
                                ELSE j.sp + 16,
                  !.sp = j.sp - 8,
                  !.ip = ip]

\* Mutant of the frame size: one slot short.
FrameSizeShort(stackSize) == stackSize - 16

\* The frame size patched into the prologue (line 156).
FrameSize(stackSize) == stackSize - 8

\* The address patched for data (line 155):
\* code.data() + code.size() - data.size() * sizeof(double),
\* an address inside the buffer of the x86::Compiler.
PoolBase(c, data) ==
    AddrTarget("asm", BufferSize(c.code) - Len(data) * SizeofDouble)

\* Mutant of the relocate() calls: pow is never relocated.
VMCompileRelocateNoPow(c, data, stackSize) ==
    X86Relocate(
        X86Relocate(c, "data", AddrTarget("asm", BufferSize(c.code) - Len(data) * SizeofDouble)),
        "stackSize", IntTarget(stackSize - 8))

\* Lines 155-157: the three relocate() calls.
VMCompileRelocate(c, data, stackSize) ==
    X86Relocate(
        X86Relocate(
            X86Relocate(c, "data", PoolBase(c, data)),
            "stackSize", IntTarget(FrameSize(stackSize))),
        "pow", FnTarget("pow"))

\* Lines 150-151: the constant pool is appended after the code.
AppendConstants(c, data) ==
    [c EXCEPT !.code = @ \o [k \in 1..Len(data) |-> X86Constant(X86Compiler, data[k]).code[1]]]

\* case Ret (lines 146-164).  On return the local c is destroyed, and the
\* buffer it owned with it.
VMCompileRet(j, ip) ==
    LET c1 == X86Emit(X86Emit(j.c, Instr("leave", "none", 0, "none")),
                      Instr("ret", "none", 0, "none"))
        c2 == AppendConstants(c1, j.data)
        c3 == VMCompileRelocate(c2, j.data, j.stackSize)
    IN  [j EXCEPT !.c = c3, !.ip = ip, !.status = "returned", !.alive = FALSE,
                  !.fn = X86CompileFunction(c3)]

\* One iteration of the loop of VM::compile.
VMCompileStep(f, j) ==
    IF j.ip >= Len(f.code) THEN [j EXCEPT !.status = "ub", !.alive = FALSE]
    ELSE
    LET b == f.code[j.ip + 1]
        ip == j.ip + 1
    IN  CASE b = Byte(Push) -> VMCompilePush(f, j, ip)
          [] b \in {Byte(Add), Byte(Sub), Byte(Mul), Byte(Div)} ->
               VMCompileArith(j, ip, b[2])
          [] b = Byte(Pow) -> VMCompilePow(j, ip)
          [] b = Byte(Ret) -> VMCompileRet(j, ip)
          [] OTHER -> [j EXCEPT !.ip = ip, !.status = "invalid byte code",
                                !.alive = FALSE]

(***************************************************************************)
(* The machine running the native function (IA-32 and x87 semantics of     *)
(* the instructions VM::compile emits; cdecl, result in ST0).              *)
(*   ip      index of the next item of the function's code                 *)
(*   st      the x87 register stack, ST0 first                             *)
(*   esp,ebp stack addresses, relative to ESP at the call                  *)
(*   mem     the 8-byte cells of the machine stack written so far          *)
(***************************************************************************)
NativeEntry ==
    [ip |-> 1, st |-> <<>>, esp |-> 0, ebp |-> 0, mem |-> [a \in {} |-> Garbage],
     status |-> "running", value |-> Garbage]

\* A store of 8 bytes at address a; a cell it partly overlaps is lost.
MemWrite(mem, a, v) ==
    LET keep == {x \in DOMAIN mem : x <= a - SizeofDouble \/ x >= a + SizeofDouble}
    IN  [x \in keep \cup {a} |-> IF x = a THEN v ELSE mem[x]]

\* The values a load of 8 bytes at stack address a may yield.  Memory
\* below ESP belongs to no frame: its contents are indeterminate.
MemRead(m, a) ==
    LET stored == IF a \in DOMAIN m.mem THEN m.mem[a] ELSE Garbage
    IN  IF a < m.esp THEN {stored, Garbage} ELSE {stored}

\* The values a load of 8 bytes at an absolute address may yield.  The
\* region "asm" is the buffer of the x86::Compiler of VM::compile, "exec"
\* the region of the x86::Function; a read of a buffer that no longer
\* exists is indeterminate.
AbsRead(fn, j, target, disp) ==
    IF target[1] # "addr" THEN {Garbage}
    ELSE
    LET items == IF target[2] = "exec" THEN fn.code ELSE j.c.code
        k == ItemAt(fn.starts, target[3] + disp)
        stored == IF k >= 1 /\ k <= Len(items) /\ items[k].op = "const"
                  THEN items[k].val ELSE Garbage
    IN  IF target[2] = "exec" \/ (target[2] = "asm" /\ j.alive)
        THEN {stored}
        ELSE {stored, Garbage}

\* Address of a base-plus-displacement operand.
EffectiveAddress(m, i) == (IF i.base = "EBP" THEN m.ebp ELSE m.esp) + i.disp

\* The values the memory operand of item i may hold.
OperandValues(fn, j, m, i) ==
    IF i.sym # "none" THEN AbsRead(fn, j, i.target, i.disp)
    ELSE MemRead(m, EffectiveAddress(m, i))

ST0(m) == IF m.st = <<>> THEN Garbage ELSE Head(m.st)
PopST(m) == IF m.st = <<>> THEN <<>> ELSE Tail(m.st)

\* ST0 after an x87 arithmetic instruction with memory operand v.
X87Arith(op, st0, v) ==
    CASE op = "faddl" -> <<"+", st0, v>>
      [] op = "fsubl" -> <<"-", st0, v>>
      [] op = "fsubrl" -> <<"-", v, st0>>
      [] op = "fmull" -> <<"*", st0, v>>
      [] op = "fdivl" -> <<"/", st0, v>>
      [] op = "fdivrl" -> <<"/", v, st0>>

\* The machine states one instruction may lead to.
NativeStep(fn, j, m) ==
    IF m.ip > Len(fn.code) THEN {[m EXCEPT !.status = "ub"]}
    ELSE
    LET i == fn.code[m.ip]
        next == [m EXCEPT !.ip = m.ip + 1]
    IN  CASE i.op = "push" -> {[next EXCEPT !.esp = m.esp - 4]}
          [] i.op = "mov" -> {[next EXCEPT !.ebp = m.esp]}
          [] i.op = "sub" ->
               IF i.target[1] = "int"
               THEN {[next EXCEPT !.esp = m.esp - i.target[2]]}
               ELSE {[m EXCEPT !.status = "ub"]}
          [] i.op = "fldl" ->
               {[next EXCEPT !.st = <<v>> \o m.st] : v \in OperandValues(fn, j, m, i)}
          [] i.op = "fstpl" ->
               {[next EXCEPT !.st = PopST(m),
                             !.mem = MemWrite(m.mem, EffectiveAddress(m, i), ST0(m))]}
          [] i.op \in {"faddl", "fsubl", "fsubrl", "fmull", "fdivl", "fdivrl"} ->
               {[next EXCEPT !.st = <<X87Arith(i.op, ST0(m), v)>> \o PopST(m)] :
                    v \in OperandValues(fn, j, m, i)}
          [] i.op = "call" ->
               \* cdecl call of pow: the arguments are the doubles at [ESP]
               \* and [ESP + 8]; the callee uses the stack below ESP and
               \* returns its result in ST0.
               IF i.target = FnTarget("pow")
               THEN {[next EXCEPT
                        !.st = <<<<"pow", a, b>>>> \o m.st,
                        !.mem = [x \in {y \in DOMAIN m.mem : y >= m.esp} |-> m.mem[x]]] :
                     a \in MemRead(m, m.esp), b \in MemRead(m, m.esp + SizeofDouble)}
               ELSE {[m EXCEPT !.status = "ub"]}
          [] i.op = "leave" -> {[next EXCEPT !.esp = m.ebp + 4]}
          [] i.op = "ret" ->
               {[next EXCEPT !.status = "returned", !.value = ST0(m)]}
          [] OTHER -> {[m EXCEPT !.status = "ub"]}

(***************************************************************************)
(* Lexer (lines 350-393).  A string is a sequence of characters; NUL is    *)
(* the character expr[pos] yields at the end of the string.  A Token is    *)
(* [id, text], id one of "n" (number), "u" (identifier), "e" (end) or a    *)
(* punctuation character.                                                  *)
(***************************************************************************)
NUL == "\\0"
Spaces == {" ", "\t"}
Digits == {"0", "1", "2", "3", "4", "5", "6", "7", "8", "9"}
Letters ==
    {"a", "b", "c", "d", "e", "f", "g", "h", "i", "j", "k", "l", "m", "n", "o", "p",
     "q", "r", "s", "t", "u", "v", "w", "x", "y", "z", "A", "Z"}
Punctuation == {"+", "-", "*", "/", "^", "(", ")"}

Token(id, text) == [id |-> id, text |-> text]

\* expr[pos], pos counted from 1.
CharAt(expr, pos) == IF pos <= Len(expr) THEN expr[pos] ELSE NUL

\* `while (cls(expr[pos])) pos++`: the first position from pos on whose
\* character is not of class cls.
RunEnd(expr, pos, cls) ==
    LET stops == {i \in pos..Len(expr) : expr[i] \notin cls}
    IN  IF stops = {} THEN (IF pos > Len(expr) THEN pos ELSE Len(expr) + 1)
        ELSE CHOOSE i \in stops : \A k \in stops : i <= k

\* The least k with 2^k >= n: a loop of at most n iterations has ended
\* after 2^k of them.
RECURSIVE Doublings(_)
Doublings(n) == IF n <= 1 THEN 0 ELSE 1 + Doublings((n + 1) \div 2)

\* One iteration of the loop of Lexer::lex: l is [pos, tokens, done], done
\* after the `break`.
LexStep(expr, l) ==
    IF l.done THEN l
    ELSE
    LET pos == RunEnd(expr, l.pos, Spaces)
        c == CharAt(expr, pos)
    IN  IF c = NUL
        THEN [pos |-> pos, tokens |-> Append(l.tokens, Token("e", <<>>)), done |-> TRUE]
        ELSE IF c \in Digits THEN
            LET p1 == RunEnd(expr, pos, Digits)
                p2 == IF CharAt(expr, p1) = "." THEN RunEnd(expr, p1 + 1, Digits) ELSE p1
            IN  [pos |-> p2, done |-> FALSE,
                 tokens |-> Append(l.tokens, Token("n", SubSeq(expr, pos, p2 - 1)))]
        ELSE IF c \in Letters THEN
            LET p1 == RunEnd(expr, pos, Letters \cup Digits)
            IN  [pos |-> p1, done |-> FALSE,
                 tokens |-> Append(l.tokens, Token("u", SubSeq(expr, pos, p1 - 1)))]
        ELSE [pos |-> pos + 1, done |-> FALSE,
              tokens |-> Append(l.tokens,
                                Token(IF c \in Punctuation THEN c ELSE "u", <<c>>))]

\* 2^k iterations of that loop.
RECURSIVE LexLoop(_, _, _)
LexLoop(expr, l, k) ==
    IF k = 0 THEN LexStep(expr, l)
    ELSE LET half == LexLoop(expr, l, k - 1)
         IN  IF half.done THEN half ELSE LexLoop(expr, half, k - 1)

\* Lexer::lex
Lex(expr) ==
    LexLoop(expr, [pos |-> 1, tokens |-> <<>>, done |-> FALSE],
            Doublings(Len(expr) + 1)).tokens

(***************************************************************************)
(* std::stod on the lexeme of a Number token (line 490).                   *)
(***************************************************************************)
\* A decimal integer of more digits than this exceeds DBL_MAX (1.797e308).
\* Some integers of exactly this many digits exceed it too, and a fraction
\* below DBL_MIN is out of range as well; no line typed here has either.
MaxDoubleDigits == 309

DigitValue(c) ==
    CASE c = "0" -> 0 [] c = "1" -> 1 [] c = "2" -> 2 [] c = "3" -> 3 [] c = "4" -> 4
      [] c = "5" -> 5 [] c = "6" -> 6 [] c = "7" -> 7 [] c = "8" -> 8 [] c = "9" -> 9

\* The digits of a lexeme, the point dropped.
DigitsOf(text) == SelectSeq(text, LAMBDA c : c # ".")

\* Number of characters before the point.
IntegerPart(text) == RunEnd(text, 1, Digits) - 1

\* Number of leading zeros of the integer part.
LeadingZeros(text) == RunEnd(text, 1, {"0"}) - 1

RECURSIVE IntOfDigits(_, _)
IntOfDigits(ds, acc) ==
    IF ds = <<>> THEN acc ELSE IntOfDigits(Tail(ds), acc * 10 + DigitValue(Head(ds)))

\* m * 10^-s without trailing zeros in the fraction.
RECURSIVE Decimal(_, _)
Decimal(m, s) == IF s > 0 /\ m % 10 = 0 THEN Decimal(m \div 10, s - 1) ELSE <<"num", m, s>>

\* stod throws std::out_of_range (what() is "stod") when the value does not
\* fit a double.
StodOutOfRange(text) == IntegerPart(text) - LeadingZeros(text) > MaxDoubleDigits

\* The double stod returns.
Stod(text) ==
    Decimal(IntOfDigits(DigitsOf(text), 0),
            IF IntegerPart(text) < Len(text) THEN Len(text) - IntegerPart(text) - 1 ELSE 0)

(***************************************************************************)
(* Parser (lines 395-506).  Every method returns [n, token, err]: the node *)
(* built, the cursor after it, and the message of the exception thrown     *)
(* (<<>> if none).                                                         *)
(***************************************************************************)
NoError == <<>>
Parsed(n, token) == [n |-> n, token |-> token, err |-> NoError]
Thrown(token, msg) == [n |-> NoTree, token |-> token, err |-> msg]

\* check(id): token->id == id
Check(tokens, token, id) == token <= Len(tokens) /\ tokens[token].id = id

\* The node each binary operator token builds.
NodeOfToken(id) ==
    CASE id = "+" -> "PlusNode"
      [] id = "-" -> "MinusNode"
      [] id = "*" -> "MultiplyNode"
      [] id = "/" -> "DivideNode"
      [] id = "^" -> "PowerNode"

RECURSIVE ParserAddSub(_, _), ParserAddSubLoop(_, _), ParserMulDiv(_, _),
          ParserMulDivLoop(_, _), ParserPower(_, _), ParserPowerLoop(_, _),
          ParserUnary(_, _), ParserTerm(_, _)

\* Mutant of the test for ')': the cursor moves on whatever the token is.
ParserCloseAdvances(tokens, r) ==
    IF r.err # NoError THEN r
    ELSE IF Check(tokens, r.token, ")") THEN Parsed(r.n, r.token + 1)
    ELSE Thrown(r.token + 1, <<"unmatched parentheses">>)

\* `if (!accept(')')) throw ...` after the addSub() that returned r.
ParserClose(tokens, r) ==
    IF r.err # NoError THEN r
    ELSE IF Check(tokens, r.token, ")") THEN Parsed(r.n, r.token + 1)
    ELSE Thrown(r.token, <<"unmatched parentheses">>)

\* term()
ParserTerm(tokens, token) ==
    IF Check(tokens, token, "n") THEN
        IF StodOutOfRange(tokens[token].text)
        THEN Thrown(token, <<"stod">>)
        ELSE Parsed(ValueNode(Stod(tokens[token].text)), token + 1)
    ELSE IF Check(tokens, token, "(") THEN
        ParserClose(tokens, ParserAddSub(tokens, token + 1))
    ELSE IF Check(tokens, token, "u") THEN
        Thrown(token, <<"unknown token '", tokens[token].text, "'">>)
    ELSE IF Check(tokens, token, "e") THEN
        Thrown(token, <<"unexpected end of expression">>)
    ELSE Thrown(token, <<"unexpected token '", tokens[token].text, "'">>)

\* `new T(l.n, operand())`, the call of operand() having returned r.
ParserNew(type, l, r) ==
    IF r.err # NoError THEN r ELSE Parsed(BinaryNode(type, l.n, r.n), r.token)

\* unary()
ParserUnary(tokens, token) ==
    IF Check(tokens, token, "+") \/ Check(tokens, token, "-") THEN
        ParserNew(NodeOfToken(tokens[token].id), Parsed(ValueNode(Num(0)), token + 1),
                  ParserTerm(tokens, token + 1))
    ELSE ParserTerm(tokens, token)

\* Mutant of the loop of power(): the right operand is a whole power().
ParserPowerLoopRight(tokens, l) ==
    IF l.err # NoError THEN l
    ELSE IF Check(tokens, l.token, "^")
    THEN ParserNew("PowerNode", l, ParserPower(tokens, l.token + 1))
    ELSE l

\* The loop of power(), l.n being the node built so far.
ParserPowerLoop(tokens, l) ==
    IF l.err # NoError THEN l
    ELSE IF Check(tokens, l.token, "^")
    THEN ParserPowerLoop(tokens, ParserNew("PowerNode", l, ParserUnary(tokens, l.token + 1)))
    ELSE l

\* power()
ParserPower(tokens, token) == ParserPowerLoop(tokens, ParserUnary(tokens, token))

\* The loop of mulDiv().
ParserMulDivLoop(tokens, l) ==
    IF l.err # NoError THEN l
    ELSE IF Check(tokens, l.token, "*") \/ Check(tokens, l.token, "/")
    THEN ParserMulDivLoop(tokens,
             ParserNew(NodeOfToken(tokens[l.token].id), l, ParserPower(tokens, l.token + 1)))
    ELSE l

\* mulDiv()
ParserMulDiv(tokens, token) == ParserMulDivLoop(tokens, ParserPower(tokens, token))

\* The loop of addSub().
ParserAddSubLoop(tokens, l) ==
    IF l.err # NoError THEN l
    ELSE IF Check(tokens, l.token, "+") \/ Check(tokens, l.token, "-")
    THEN ParserAddSubLoop(tokens,
             ParserNew(NodeOfToken(tokens[l.token].id), l, ParserMulDiv(tokens, l.token + 1)))
    ELSE l

\* addSub()
ParserAddSub(tokens, token) == ParserAddSubLoop(tokens, ParserMulDiv(tokens, token))

\* `Parser parser;` (line 510): no tokens, the iterator singular.
ParserObject == [tokens |-> <<>>, token |-> 0]

\* Mutant of lines 401-402: the cursor stays where the last parse left it.
ParserBeginKeepsCursor(p, tokens) ==
    [tokens |-> tokens, token |-> IF p.token \in 1..Len(tokens) THEN p.token ELSE 1]

\* Lines 401-402: this->tokens = tokens; token = this->tokens.begin()
ParserBegin(p, tokens) == [tokens |-> tokens, token |-> 1]

\* Lines 406-407, the call of addSub() having returned r.
ParserEnd(tokens, r) ==
    IF r.err # NoError THEN r
    ELSE IF ~Check(tokens, r.token, "e")
    THEN Thrown(r.token, <<"there's an excess part of expression">>)
    ELSE r

\* Mutant of Parser::parse: what follows the expression is not looked at.
ParserParseNoExcess(p, tokens) ==
    ParserAddSub(ParserBegin(p, tokens).tokens, ParserBegin(p, tokens).token)

\* Parser::parse: [n, token, err] as above (token is where the cursor of
\* the object is left).
ParserParse(p, tokens) ==
    ParserEnd(ParserBegin(p, tokens).tokens,
              ParserAddSub(ParserBegin(p, tokens).tokens, ParserBegin(p, tokens).token))

(***************************************************************************)
(* The back end as main's `test` command drives it (lines 532-564):        *)
(* compiler.compile, vm.compile, vm.allocate, vm.setCode, then one call    *)
(* of tree->eval(), of vm.run() and of the native function.                *)
(***************************************************************************)
\* The ASTs whose leaves are the constants lo..hi, in that order.
RECURSIVE TreesOver(_, _)
TreesOver(lo, hi) ==
    IF lo = hi THEN {ValueNode(Num(lo))}
    ELSE UNION {{BinaryNode(t, l, r) :
                    t \in BinaryNodes, l \in TreesOver(lo, k), r \in TreesOver(k + 1, hi)} :
                k \in lo..(hi - 1)}

Trees == UNION {TreesOver(1, n) : n \in 1..MaxLeaves}

NoFunction == [code |-> <<>>, stackSize |-> 0]

\* Values an int that was never initialised may hold.
UninitInts == {0, 40}

\* `Compiler compiler;` (line 511): sp and stackSize are not initialised.
CompilerObjects == {[code |-> <<>>, sp |-> a, stackSize |-> b] : a, b \in UninitInts}

\* `VM vm;` (line 512): stack = nullptr.
VMObject == [stack |-> <<>>, stackSize |-> 0, code |-> <<>>]

\* The front end before a line is read.
FrontIdle ==
    [phase |-> "idle", keys |-> 0, input |-> <<>>, tokens |-> <<>>,
     parser |-> ParserObject, result |-> Parsed(NoTree, 0)]

JitIdle == [VMCompileEntry(NoFunction) EXCEPT !.status = "idle", !.c = X86Compiler]
RunIdle == [VMRunEntry(VMObject) EXCEPT !.status = "idle"]
CpuIdle == [NativeEntry EXCEPT !.status = "idle"]
NoResults == [tree |-> NoValue, vm |-> NoValue, native |-> NoValue]
ReplIdle ==
    [phase |-> "idle", eof |-> FALSE, prompts |-> 0, errors |-> 0, str |-> <<>>,
     printed |-> <<>>, code |-> NoValue]

ExecInit ==
    /\ pc = "start"
    /\ tree = NoTree
    /\ compiler \in CompilerObjects
    /\ func = NoFunction
    /\ ncomp = 0
    /\ jit = JitIdle
    /\ vm = VMObject
    /\ run = RunIdle
    /\ cpu = CpuIdle
    /\ results = NoResults
    /\ front = FrontIdle
    /\ repl = ReplIdle

\* Function func = compiler.compile(tree), the compiler object being reused.
DoCompile ==
    /\ pc \in {"start", "compiled"}
    /\ ncomp < MaxCompiles
    /\ \E t \in Trees :
         /\ tree' = t
         /\ compiler' = CompilerCompile(compiler, t)
    /\ func' = FunctionOf(compiler')
    /\ ncomp' = ncomp + 1
    /\ pc' = "compiled"
    /\ UNCHANGED <<jit, vm, run, cpu, results, front, repl>>

\* vm.compile(func): entry and prologue.
DoVMCompileEnter ==
    /\ pc = "compiled"
    /\ jit' = VMCompileEntry(func)
    /\ pc' = "jit"
    /\ UNCHANGED <<tree, compiler, func, ncomp, vm, run, cpu, results, front, repl>>

\* vm.compile(func): one opcode.
DoVMCompileStep ==
    /\ pc = "jit"
    /\ jit.status = "running"
    /\ jit' = VMCompileStep(func, jit)
    /\ pc' = IF jit'.status = "running" THEN "jit" ELSE "jitted"
    /\ UNCHANGED <<tree, compiler, func, ncomp, vm, run, cpu, results, front, repl>>

\* vm.allocate(func.stackSize); vm.setCode(func.code.data())
DoAllocate ==
    /\ pc = "jitted"
    /\ jit.status = "returned"
    /\ vm' = VMSetCode(VMAllocate(vm, func.stackSize), func.code)
    /\ pc' = "allocated"
    /\ UNCHANGED <<tree, compiler, func, ncomp, jit, run, cpu, results, front, repl>>

\* tree->eval()
DoTreeEval ==
    /\ pc = "allocated"
    /\ results' = [results EXCEPT !.tree = NodeEval(tree)]
    /\ pc' = "evaluated"
    /\ UNCHANGED <<tree, compiler, func, ncomp, jit, vm, run, cpu, front, repl>>

\* vm.run(): entry.
DoRunEnter ==
    /\ pc = "evaluated"
    /\ run' = VMRunEntry(vm)
    /\ pc' = "run"
    /\ UNCHANGED <<tree, compiler, func, ncomp, jit, vm, cpu, results, front, repl>>

\* vm.run(): one opcode.
DoRunStep ==
    /\ pc = "run"
    /\ run.status = "running"
    /\ run' = VMRunStep(vm, run)
    /\ vm' = [vm EXCEPT !.stack = run'.stack]
    /\ IF run'.status = "running"
       THEN pc' = "run" /\ UNCHANGED results
       ELSE pc' = "ran" /\ results' = [results EXCEPT !.vm = run'.value]
    /\ UNCHANGED <<tree, compiler, func, ncomp, jit, cpu, front, repl>>

\* f(): the call of the native function.
DoCallEnter ==
    /\ pc = "ran"
    /\ cpu' = NativeEntry
    /\ pc' = "call"
    /\ UNCHANGED <<tree, compiler, func, ncomp, jit, vm, run, results, front, repl>>

\* f(): one instruction.
DoCallStep ==
    /\ pc = "call"
    /\ cpu.status = "running"
    /\ cpu' \in NativeStep(jit.fn, jit, cpu)
    /\ IF cpu'.status = "running"
       THEN pc' = "call" /\ UNCHANGED results
       ELSE pc' = "done" /\ results' = [results EXCEPT !.native = cpu'.value]
    /\ UNCHANGED <<tree, compiler, func, ncomp, jit, vm, run, front, repl>>

ExecNext ==
    \/ DoCompile
    \/ DoVMCompileEnter
    \/ DoVMCompileStep
    \/ DoAllocate
    \/ DoTreeEval
    \/ DoRunEnter
    \/ DoRunStep
    \/ DoCallEnter
    \/ DoCallStep

SpecExec == ExecInit /\ [][ExecNext]_vars

(***************************************************************************)
(* The front end as line 570 drives it: parser.parse(lexer.lex(str)).      *)
(***************************************************************************)
\* The characters typed one at a time.
Keys == {"1", "5", ".", "a", " ", "+", "-", "*", "/", "^", "(", ")", "$", "#", NUL}

\* A run of digits too long for a double.
LongNumber == [i \in 1..(MaxDoubleDigits + 1) |-> "9"]

FrontInit ==
    /\ pc = "front"
    /\ tree = NoTree
    /\ compiler \in {[code |-> <<>>, sp |-> 0, stackSize |-> 0]}
    /\ func = NoFunction
    /\ ncomp = 0
    /\ jit = JitIdle
    /\ vm = VMObject
    /\ run = RunIdle
    /\ cpu = CpuIdle
    /\ results = NoResults
    /\ front = [FrontIdle EXCEPT !.phase = "typing"]
    /\ repl = ReplIdle

\* One more character of the line.
TypeChar ==
    /\ front.phase = "typing"
    /\ front.keys < MaxInput
    /\ \E c \in Keys :
         front' = [front EXCEPT !.input = Append(@, c), !.keys = @ + 1]
    /\ UNCHANGED <<pc, tree, compiler, func, ncomp, jit, vm, run, cpu, results, repl>>

\* A long run of digits typed at once.
TypeLongNumber ==
    /\ front.phase = "typing"
    /\ front.keys < MaxInput
    /\ \A i \in 1..Len(front.input) : front.input[i] \notin Digits
    /\ front' = [front EXCEPT !.input = @ \o LongNumber, !.keys = @ + 1]
    /\ UNCHANGED <<pc, tree, compiler, func, ncomp, jit, vm, run, cpu, results, repl>>

\* lexer.lex(str)
DoLex ==
    /\ front.phase = "typing"
    /\ front.input # <<>>
    /\ front' = [front EXCEPT !.tokens = Lex(front.input), !.phase = "lexed"]
    /\ UNCHANGED <<pc, tree, compiler, func, ncomp, jit, vm, run, cpu, results, repl>>

\* parser.parse(tokens)
DoParse ==
    /\ front.phase = "lexed"
    /\ LET r == ParserParse(front.parser, front.tokens)
       IN  front' = [front EXCEPT !.result = r,
                                  !.parser = [tokens |-> front.tokens, token |-> r.token],
                                  !.phase = "parsed"]
    /\ UNCHANGED <<pc, tree, compiler, func, ncomp, jit, vm, run, cpu, results, repl>>

FrontNext == TypeChar \/ TypeLongNumber \/ DoLex \/ DoParse

SpecFront == FrontInit /\ [][FrontNext]_vars

\* The lexemes a line is spelled with: a digit, "$", a punctuation character.
LexemeKinds == {"n", "$"} \cup Punctuation

\* The i-th lexeme of a line, of kind k: a number is spelled as the digit i.
Lexeme(i, k) == IF k = "n" THEN CHOOSE d \in Digits : DigitValue(d) = i ELSE k

\* The line of the lexemes of kinds ks[1], ks[2], ..., one space between two.
Spell(ks) ==
    [j \in 1..(2 * Len(ks) - 1) |->
        IF j % 2 = 1 THEN Lexeme((j + 1) \div 2, ks[(j + 1) \div 2]) ELSE " "]

\* The parser on every token sequence the lexer makes of such a line.
ParseInit ==
    /\ pc = "front"
    /\ tree = NoTree
    /\ compiler \in {[code |-> <<>>, sp |-> 0, stackSize |-> 0]}
    /\ func = NoFunction
    /\ ncomp = 0
    /\ jit = JitIdle
    /\ vm = VMObject
    /\ run = RunIdle
    /\ cpu = CpuIdle
    /\ results = NoResults
    /\ \E n \in 1..MaxTokens :
         \E ks \in [1..n -> LexemeKinds] :
            front = [FrontIdle EXCEPT !.phase = "lexed", !.input = Spell(ks),
                                      !.tokens = Lex(Spell(ks))]
    /\ repl = ReplIdle

SpecParse == ParseInit /\ [][DoParse]_vars

(***************************************************************************)
(* main (lines 508-581): the loop that writes the prompt, reads a line and *)
(* dispatches on it.  repl.eof is the eofbit of std::cin, repl.printed     *)
(* what the current iteration wrote to std::cout, repl.prompts and         *)
(* repl.errors the prompts and the `error:` lines written so far,          *)
(* repl.code the value main returned.                                      *)
(***************************************************************************)
\* VM::compile(f), start to end: 2^k iterations of its loop.
RECURSIVE VMCompileLoop(_, _, _)
VMCompileLoop(f, j, k) ==
    IF k = 0 THEN (IF j.status = "running" THEN VMCompileStep(f, j) ELSE j)
    ELSE LET half == VMCompileLoop(f, j, k - 1)
         IN  IF half.status # "running" THEN half ELSE VMCompileLoop(f, half, k - 1)

VMCompile(f) == VMCompileLoop(f, VMCompileEntry(f), Doublings(Len(f.code) + 1))

\* VM::run(), start to end: v is the VM, r the locals of run().
RECURSIVE VMRunLoop(_, _)
VMRunLoop(vr, k) ==
    IF k = 0
    THEN IF vr.r.status = "running"
         THEN LET r1 == VMRunStep(vr.v, vr.r)
              IN  [v |-> [vr.v EXCEPT !.stack = r1.stack], r |-> r1]
         ELSE vr
    ELSE LET half == VMRunLoop(vr, k - 1)
         IN  IF half.r.status # "running" THEN half ELSE VMRunLoop(half, k - 1)

VMRun(v) == VMRunLoop([v |-> v, r |-> VMRunEntry(v)], Doublings(Len(v.code) + 1)).r

\* A double computed from an indeterminate one.
RECURSIVE Indeterminate(_)
Indeterminate(v) ==
    \/ v = Garbage
    \/ v[1] \in Operators /\ (Indeterminate(v[2]) \/ Indeterminate(v[3]))

\* What is known of a double: the value, or that it is indeterminate.
Settle(v) == IF Indeterminate(v) THEN Garbage ELSE v

\* The machine with every double settled.
SettleMachine(m) ==
    [m EXCEPT !.st = [k \in 1..Len(m.st) |-> Settle(m.st[k])],
              !.mem = [a \in DOMAIN m.mem |-> Settle(m.mem[a])],
              !.value = Settle(m.value)]

\* One instruction on each machine of ms that has not returned.
NativeStepAll(fn, j, ms) ==
    {m \in ms : m.status # "running"} \cup
    UNION {{SettleMachine(n) : n \in NativeStep(fn, j, m)} :
               m \in {x \in ms : x.status = "running"}}

\* 2^k instructions.
RECURSIVE NativeLoop(_, _, _, _)
NativeLoop(fn, j, ms, k) ==
    IF k = 0 THEN NativeStepAll(fn, j, ms)
    ELSE LET half == NativeLoop(fn, j, ms, k - 1)
         IN  IF \A m \in half : m.status # "running" THEN half
             ELSE NativeLoop(fn, j, half, k - 1)

\* The call of the native function, start to end: the machines it may
\* return with.
NativeCall(fn, j) == NativeLoop(fn, j, {NativeEntry}, Doublings(Len(fn.code) + 1))

\* What the iteration writes.
PromptText == <<"$ ">>
ErrorLine(msg) == <<"error: ", msg, "\n">>
\* operator<< of a double at setprecision(16), and "\n".
ValueLine(v) == <<"%.16g", v, "\n">>
\* The output of system("objdump -d a.o") and the "\n" after it (159-160).
Objdump(j) == <<"objdump -d a.o", j.c.code, "\n">>
NewLine == <<"\n">>

\* The lines with a meaning of their own.
Exit == <<"e", "x", "i", "t">>
Cls == <<"c", "l", "s">>
Test == <<"t", "e", "s", "t">>

\* The lines typed in a session.
Lines ==
    {<<>>, Exit, Cls, Test,
     <<"1">>, <<"1", "+", "5">>, <<"5", "^", "1">>, <<"e", "x", "i", "t", " ">>,
     <<"1", "+">>, <<"(", "1">>, <<"1", " ", "1">>, <<"$">>}

\* Line 570 up to the call of the native function, as the record of what
\* lexer.lex, parser.parse, compiler.compile and vm.compile returned and
\* left in the objects main holds; err is the message of the exception
\* thrown.  Each operator is the rest of the line after one of the calls.
EvaluateJit(tokens, r, c, j) ==
    [tokens |-> tokens, result |-> r,
     parser |-> [tokens |-> tokens, token |-> r.token],
     compiler |-> c, func |-> FunctionOf(c), jit |-> j,
     err |-> IF j.status = "invalid byte code" THEN <<"invalid byte code">> ELSE NoError]

EvaluateCompile(tokens, r, c) == EvaluateJit(tokens, r, c, VMCompile(FunctionOf(c)))

EvaluateParse(comp, tokens, r) ==
    IF r.err # NoError
    THEN [tokens |-> tokens, result |-> r,
          parser |-> [tokens |-> tokens, token |-> r.token],
          compiler |-> comp, func |-> NoFunction, jit |-> JitIdle, err |-> r.err]
    ELSE EvaluateCompile(tokens, r, CompilerCompile(comp, r.n))

EvaluateLex(parser, comp, tokens) ==
    EvaluateParse(comp, tokens, ParserParse(parser, tokens))

Evaluate(parser, comp, str) == EvaluateLex(parser, comp, Lex(str))

\* What lines 570-574 may write for such an evaluation.
Written(e) ==
    IF e.err # NoError THEN {<<ErrorLine(e.err)>>}
    ELSE {<<Objdump(e.jit), ValueLine(m.value)>> : m \in NativeCall(e.jit.fn, e.jit)}

\* The expression of `test` (line 530).
TestTerm ==
    <<"2", " ", "*", " ", "(", "3", " ", "+", " ", "1", " ", "/", " ", "2", ")",
      " ", "-", " ", "6">>
TestPlus == <<" ", "+", " ">>
TestExpr ==
    TestTerm \o TestPlus \o TestTerm \o TestPlus \o TestTerm \o TestPlus \o TestTerm
        \o TestPlus \o TestTerm

\* The iterations of each loop of `test` (line 540).
N == 1000000

\* sum after N times `sum += v`.
Sum(v) == <<"sum", N, v>>

ReplInit ==
    /\ pc = "repl"
    /\ tree = NoTree
    /\ compiler \in CompilerObjects
    /\ func = NoFunction
    /\ ncomp = 0
    /\ jit = JitIdle
    /\ vm = VMObject
    /\ run = RunIdle
    /\ cpu = CpuIdle
    /\ results = NoResults
    /\ front = FrontIdle
    /\ repl = [ReplIdle EXCEPT !.phase = "prompt"]

\* std::cout << "$ "
ReplPrompt ==
    /\ repl.phase = "prompt"
    /\ repl.prompts < MaxPrompts
    /\ repl' = [repl EXCEPT !.phase = "getline", !.prompts = @ + 1,
                            !.printed = <<PromptText>>]
    /\ UNCHANGED <<pc, tree, compiler, func, ncomp, jit, vm, run, cpu, results, front>>

\* std::getline(std::cin, str): a line, or nothing at the end of the input,
\* which sets eofbit and leaves str empty; with eofbit set nothing is read.
ReplGetLine ==
    /\ repl.phase = "getline"
    /\ \/ /\ ~repl.eof
          /\ \E line \in Lines : repl' = [repl EXCEPT !.phase = "dispatch", !.str = line]
       \/ repl' = [repl EXCEPT !.phase = "dispatch", !.str = <<>>, !.eof = TRUE]
    /\ UNCHANGED <<pc, tree, compiler, func, ncomp, jit, vm, run, cpu, results, front>>

\* if (str.empty()) continue;
ReplEmpty ==
    /\ repl.phase = "dispatch"
    /\ repl.str = <<>>
    /\ repl' = [repl EXCEPT !.phase = "prompt"]
    /\ UNCHANGED <<pc, tree, compiler, func, ncomp, jit, vm, run, cpu, results, front>>

\* else if (str == "exit") break;  ...  return 0;
ReplExit ==
    /\ repl.phase = "dispatch"
    /\ repl.str = Exit
    /\ repl' = [repl EXCEPT !.phase = "returned", !.code = 0]
    /\ UNCHANGED <<pc, tree, compiler, func, ncomp, jit, vm, run, cpu, results, front>>

\* else if (str == "cls") { system("cls"); continue; }
ReplCls ==
    /\ repl.phase = "dispatch"
    /\ repl.str = Cls
    /\ repl' = [repl EXCEPT !.phase = "prompt", !.printed = Append(@, <<"cls">>)]
    /\ UNCHANGED <<pc, tree, compiler, func, ncomp, jit, vm, run, cpu, results, front>>

\* else if (str == "test") { ... }: outside the try block.  The three
\* sums are written; the times, which the clock decides, are left out.
ReplTest ==
    /\ repl.phase = "dispatch"
    /\ repl.str = Test
    /\ \E e \in {Evaluate(front.parser, compiler, TestExpr)} :
       \E r \in {VMRun(VMSetCode(VMAllocate(vm, e.func.stackSize), e.func.code))} :
       \E m \in NativeCall(e.jit.fn, e.jit) :
          /\ front' = [front EXCEPT !.input = TestExpr, !.tokens = e.tokens,
                                    !.parser = e.parser, !.result = e.result,
                                    !.phase = "parsed"]
          /\ tree' = e.result.n
          /\ compiler' = e.compiler
          /\ func' = e.func
          /\ jit' = e.jit
          /\ vm' = [VMSetCode(VMAllocate(vm, e.func.stackSize), e.func.code)
                        EXCEPT !.stack = r.stack]
          /\ run' = r
          /\ cpu' = m
          /\ results' = [tree |-> NodeEval(e.result.n), vm |-> r.value,
                         native |-> m.value]
          /\ repl' = [repl EXCEPT
                        !.phase = "newline",
                        !.printed = @ \o <<Objdump(e.jit),
                                           <<"tree:     sum=", Sum(NodeEval(e.result.n))>>,
                                           <<"bytecode: sum=", Sum(r.value)>>,
                                           <<"x86 code: sum=", Sum(m.value)>>>>]
    /\ UNCHANGED <<pc, ncomp>>

\* else { try { ... } catch (const std::exception &e) { ... } }
ReplEval ==
    /\ repl.phase = "dispatch"
    /\ repl.str \notin {<<>>, Exit, Cls, Test}
    /\ \E e \in {Evaluate(front.parser, compiler, repl.str)} :
          /\ front' = [front EXCEPT !.input = repl.str, !.tokens = e.tokens,
                                    !.parser = e.parser, !.result = e.result,
                                    !.phase = "parsed"]
          /\ compiler' = e.compiler
          /\ IF e.result.err # NoError
             THEN UNCHANGED <<tree, func, jit>>
             ELSE tree' = e.result.n /\ func' = e.func /\ jit' = e.jit
          /\ IF e.err # NoError
             THEN /\ repl' = [repl EXCEPT !.phase = "newline", !.errors = @ + 1,
                                          !.printed = @ \o <<ErrorLine(e.err)>>]
                  /\ UNCHANGED <<cpu, results>>
             ELSE \E m \in NativeCall(e.jit.fn, e.jit) :
                    /\ cpu' = m
                    /\ results' = [NoResults EXCEPT !.native = m.value]
                    /\ repl' = [repl EXCEPT
                                  !.phase = "newline",
                                  !.printed = @ \o <<Objdump(e.jit), ValueLine(m.value)>>]
    /\ UNCHANGED <<pc, ncomp, vm, run>>

\* std::cout << "\n" (line 577), and back to the head of the loop.
ReplNewLine ==
    /\ repl.phase = "newline"
    /\ repl' = [repl EXCEPT !.phase = "prompt", !.printed = Append(@, NewLine)]
    /\ UNCHANGED <<pc, tree, compiler, func, ncomp, jit, vm, run, cpu, results, front>>

ReplNext ==
    \/ ReplPrompt
    \/ ReplGetLine
    \/ ReplEmpty
    \/ ReplExit
    \/ ReplCls
    \/ ReplTest
    \/ ReplEval
    \/ ReplNewLine

SpecRepl == ReplInit /\ [][ReplNext]_vars

(***************************************************************************)
(* Properties of the front end.  The reference is the grammar of section   *)
(* 4.2 of the specification, read as a definition of the set of trees of   *)
(* a token sequence (it holds at most one tree):                           *)
(*   expr  := term2 (('+'|'-') term2)*     term2 := term3 (('*'|'/') term3)* *)
(*   term3 := term4 ('^' term4)*           term4 := ('+'|'-') term5 | term5 *)
(*   term5 := Number | '(' expr ')'                                        *)
(* every repetition folded to the left.                                    *)
(***************************************************************************)
GrammarNode(id) ==
    CASE id = "+" -> "PlusNode"
      [] id = "-" -> "MinusNode"
      [] id = "*" -> "MultiplyNode"
      [] id = "/" -> "DivideNode"
      [] id = "^" -> "PowerNode"

\* The number a lexeme denotes.
GrammarValue(text) == IF StodOutOfRange(text) THEN <<"inf">> ELSE Stod(text)

RECURSIVE GrammarExpr(_), GrammarTerm2(_), GrammarTerm3(_), GrammarTerm4(_),
          GrammarTerm5(_)

\* The positions of ts, not the first nor the last, that hold one of ops.
Infix(ts, ops) == {i \in 2..(Len(ts) - 1) : ts[i].id \in ops}

GrammarTerm5(ts) ==
    IF Len(ts) = 1 /\ ts[1].id = "n" THEN {ValueNode(GrammarValue(ts[1].text))}
    ELSE IF Len(ts) >= 3 /\ ts[1].id = "(" /\ ts[Len(ts)].id = ")"
    THEN GrammarExpr(SubSeq(ts, 2, Len(ts) - 1))
    ELSE {}

GrammarTerm4(ts) ==
    IF Len(ts) >= 2 /\ ts[1].id \in {"+", "-"}
    THEN {BinaryNode(GrammarNode(ts[1].id), ValueNode(Num(0)), t) :
              t \in GrammarTerm5(Tail(ts))}
    ELSE GrammarTerm5(ts)

GrammarTerm3(ts) ==
    GrammarTerm4(ts) \cup
    UNION {{BinaryNode("PowerNode", l, r) :
                l \in GrammarTerm3(SubSeq(ts, 1, i - 1)),
                r \in GrammarTerm4(SubSeq(ts, i + 1, Len(ts)))} : i \in Infix(ts, {"^"})}

GrammarTerm2(ts) ==
    GrammarTerm3(ts) \cup
    UNION {{BinaryNode(GrammarNode(ts[i].id), l, r) :
                l \in GrammarTerm2(SubSeq(ts, 1, i - 1)),
                r \in GrammarTerm3(SubSeq(ts, i + 1, Len(ts)))} : i \in Infix(ts, {"*", "/"})}

GrammarExpr(ts) ==
    GrammarTerm2(ts) \cup
    UNION {{BinaryNode(GrammarNode(ts[i].id), l, r) :
                l \in GrammarExpr(SubSeq(ts, 1, i - 1)),
                r \in GrammarTerm2(SubSeq(ts, i + 1, Len(ts)))} : i \in Infix(ts, {"+", "-"})}

\* The trees of a token sequence of the lexer: expr followed by End.
GrammarTrees(tokens) ==
    IF tokens # <<>> /\ tokens[Len(tokens)].id = "e"
    THEN GrammarExpr(SubSeq(tokens, 1, Len(tokens) - 1))
    ELSE {}

\* The messages of the parse errors.
ParseErrors ==
    {"unknown token '", "unexpected token '", "unexpected end of expression",
     "unmatched parentheses", "there's an excess part of expression"}

\* C3: Parser::parse returns an AST if and only if the token sequence
\* matches the grammar of section 4.2 followed by End; otherwise it raises
\* one error, whose message is one of the five parse errors.
C3_ParserAcceptsGrammar ==
    front.phase = "parsed" =>
        /\ front.result.err = NoError <=> GrammarTrees(front.tokens) # {}
        /\ front.result.err # NoError => front.result.err[1] \in ParseErrors

\* C3 for the lines whose numbers fit a double.
C3_InRange ==
    (front.phase = "parsed" /\ \A i \in 1..Len(front.tokens) :
                                  ~StodOutOfRange(front.tokens[i].text)) =>
        /\ front.result.err = NoError <=> GrammarTrees(front.tokens) # {}
        /\ front.result.err # NoError => front.result.err[1] \in ParseErrors

\* The characters of a line that the lexer reads: those before the first NUL.
Read(input) ==
    LET nuls == {i \in 1..Len(input) : input[i] = NUL}
    IN  IF nuls = {} THEN input
        ELSE SubSeq(input, 1, (CHOOSE i \in nuls : \A k \in nuls : i <= k) - 1)

\* A character that is not whitespace, a digit, a letter or one of +-*/^().
Other(c) == c \notin Spaces \cup Digits \cup Letters \cup Punctuation

\* An Identifier token that carries one such character.
OtherToken(t) == t.id = "u" /\ Len(t.text) = 1 /\ Other(t.text[1])

\* The index of the first Identifier token (0 if there is none).
FirstIdentifier(tokens) ==
    LET is == {i \in 1..Len(tokens) : tokens[i].id = "u"}
    IN  IF is = {} THEN 0 ELSE CHOOSE i \in is : \A k \in is : i <= k

\* The tokens before the i-th, followed by End.
CutAt(tokens, i) == Append(SubSeq(tokens, 1, i - 1), Token("e", <<>>))

\* C9 as stated: every character that is not whitespace, a digit, a letter
\* or one of +-*/^() becomes an Identifier token carrying that character,
\* and every input with such a token is rejected with "unknown token '<t>'"
\* wherever the token stands.
C9_AlwaysUnknownToken ==
    front.phase = "parsed" =>
        /\ \A k \in 1..Len(front.input) :
              Other(front.input[k]) =>
                  \E i \in 1..Len(front.tokens) :
                      front.tokens[i] = Token("u", <<front.input[k]>>)
        /\ \A i \in 1..Len(front.tokens) :
              OtherToken(front.tokens[i]) =>
                  \E j \in 1..Len(front.tokens) :
                      /\ OtherToken(front.tokens[j])
                      /\ front.result.err = <<"unknown token '", front.tokens[j].text, "'">>

\* C9 amended: the characters read (those before the first NUL) that are
\* not whitespace, a digit, a letter, a point or one of +-*/^() are, in
\* order, the one-character Identifier tokens of that kind; every input
\* with an Identifier token of one such character (a point included) is
\* rejected; and the error is "unknown token '<t>'", t the first Identifier
\* token, exactly when the tokens before t call for an operand next (cut
\* there, they raise "unexpected end of expression").
C9_UnknownTokenWhereOperandExpected ==
    front.phase = "parsed" =>
        /\ SelectSeq(Read(front.input), LAMBDA c : Other(c) /\ c # ".")
             = [k \in 1..Len(SelectSeq(front.tokens,
                                   LAMBDA t : OtherToken(t) /\ t.text # <<".">>)) |->
                   SelectSeq(front.tokens,
                             LAMBDA t : OtherToken(t) /\ t.text # <<".">>)[k].text[1]]
        /\ (\E i \in 1..Len(front.tokens) : OtherToken(front.tokens[i])) =>
              LET i == FirstIdentifier(front.tokens)
              IN  /\ front.result.err # NoError
                  /\ front.result.err = <<"unknown token '", front.tokens[i].text, "'">>
                       <=> ParserParse(ParserObject, CutAt(front.tokens, i)).err
                             = <<"unexpected end of expression">>

\* Witness of C9: `(1$` is rejected, the `$` being an Identifier token, but
\* for its parentheses: no operand was expected there.
C9_Witness ==
    /\ front.phase = "parsed"
    /\ front.input = <<"(", "1", "$">>
    /\ front.tokens[3] = Token("u", <<"$">>)
    /\ front.result.err = <<"unmatched parentheses">>

\* `1+#`: the token stands where an operand is expected.
C9_WitnessOperand ==
    /\ front.phase = "parsed"
    /\ front.input = <<"1", "+", "#">>
    /\ front.result.err = <<"unknown token '", <<"#">>, "'">>

\* C10: for every accepted token sequence the AST of Parser::parse is the
\* tree of the grammar in which every binary level, `^` included, is folded
\* left-to-right and a unary sign applies to the term5 that follows it,
\* before any `^`.
C10_ParserBuildsGrammarTree ==
    (front.phase = "parsed" /\ front.result.err = NoError) =>
        GrammarTrees(front.tokens) = {front.result.n}

\* Witness of C10: `1 ^ 3 ^ 5` parsed as Pow(Pow(1, 3), 5).
C10_Witness ==
    /\ front.phase = "parsed"
    /\ front.input = <<"1", " ", "^", " ", "3", " ", "^", " ", "5">>
    /\ front.result.n =
          BinaryNode("PowerNode",
              BinaryNode("PowerNode", ValueNode(Num(1)), ValueNode(Num(3))),
              ValueNode(Num(5)))

(***************************************************************************)
(* Properties of the back end.                                             *)
(***************************************************************************)
\* Equality of two symbolic doubles, up to the commutativity of IEEE-754
\* addition and multiplication.
RECURSIVE SameValue(_, _)
SameValue(a, b) ==
    IF a[1] \notin Operators \/ b[1] \notin Operators THEN a = b
    ELSE /\ a[1] = b[1]
         /\ \/ SameValue(a[2], b[2]) /\ SameValue(a[3], b[3])
            \/ a[1] \in {"+", "*"} /\ SameValue(a[2], b[3]) /\ SameValue(a[3], b[2])

\* The opcode VM::run is about to execute.
NextOpcode == IF run.ip < Len(vm.code) THEN vm.code[run.ip + 1] ELSE NoValue

\* C1: the three execution modes return the same result for every accepted
\* expression: tree evaluation, VM::run on the compiled bytecode and the
\* native function emitted by VM::compile all compute op(left, right) for
\* every binary node, the left subtree being the first operand.
C1_ModesAgree ==
    pc = "done" =>
        /\ run.status = "returned"
        /\ cpu.status = "returned"
        /\ results.vm = results.tree
        /\ SameValue(results.native, results.tree)

\* C2: the program of Compiler::compile, run on an operand stack of
\* stackSize/8 values, never pops from an empty stack (a binary opcode finds
\* two values), never holds more than stackSize/8 values, reaches Ret with
\* exactly one value, and Ret is the last byte of the program.
C2_WellFormedRun ==
    /\ pc \in {"run", "ran"} =>
         /\ run.status \in {"running", "returned"}
         /\ RunDepth(vm, run) >= 0
         /\ RunDepth(vm, run) * 8 <= func.stackSize
         /\ (run.status = "running" /\ NextOpcode \notin {Byte(Push), Byte(Ret)})
                => /\ NextOpcode \in {Byte(Add), Byte(Sub), Byte(Mul), Byte(Div), Byte(Pow)}
                   /\ RunDepth(vm, run) >= 2
         /\ (run.status = "running" /\ NextOpcode = Byte(Ret))
                => RunDepth(vm, run) = 1 /\ run.ip + 1 = Len(vm.code)
         /\ run.status = "returned" => RunDepth(vm, run) = 1 /\ run.ip = Len(vm.code)
    /\ pc # "start" => func.code[Len(func.code)] = Byte(Ret)

\* Witness of C2: a run that fills a stack of three values to its capacity.
C2_Witness ==
    /\ pc = "run"
    /\ func.stackSize = 24
    /\ RunDepth(vm, run) = 3
    /\ NextOpcode \in {Byte(Add), Byte(Sub), Byte(Mul), Byte(Div), Byte(Pow)}

\* The items of the compiled function that spill ST0 below EBP.
SpillStores == {k \in 1..Len(jit.fn.code) :
                   jit.fn.code[k].op = "fstpl" /\ jit.fn.code[k].base = "EBP"}

\* The frame size the prologue of the compiled function subtracts from ESP.
PatchedFrame == jit.fn.code[3].target[2]

\* C4: the frame size patched into the prologue's `sub stackSize, ESP` is
\* at least the largest displacement below EBP of any spill store
\* `fstpl [EBP - sp]`, so every spill slot lies inside the allocated frame.
C4_FrameCoversSpills ==
    /\ jit.status = "returned" =>
         /\ jit.fn.code[3].op = "sub"
         /\ jit.fn.code[3].target[1] = "int"
         /\ \A k \in SpillStores :
              /\ -jit.fn.code[k].disp <= PatchedFrame
              /\ -jit.fn.code[k].disp >= SizeofDouble
    /\ (pc = "call" /\ cpu.ip > 3 /\ cpu.esp <= cpu.ebp) =>   \* the frame exists
         \A a \in DOMAIN cpu.mem : a >= cpu.esp /\ a + SizeofDouble <= cpu.ebp

\* Witness of C4: a compiled function whose deepest spill slot starts
\* exactly at the bottom of a frame of 16 bytes, and the machine having
\* stored into it.
C4_Witness ==
    /\ pc = "call"
    /\ PatchedFrame = 16
    /\ \E k \in SpillStores : -jit.fn.code[k].disp = 16
    /\ cpu.esp \in DOMAIN cpu.mem

\* C5: when VM::compile returns, every symbol an emitted instruction refers
\* to (stackSize, data, pow) has been passed to relocate(): the function
\* handed to compileFunction() holds no pending reference.
C5_RelocationsResolved ==
    jit.status = "returned" =>
        /\ \A k \in 1..Len(jit.fn.code) : jit.fn.code[k].target # Unresolved
        /\ X86Symbols(jit.c) \subseteq jit.c.relocated
        /\ "stackSize" \in X86Symbols(jit.c)
        /\ "data" \in X86Symbols(jit.c)

\* Witness of C5: a compiled function that refers to all three symbols.
C5_Witness ==
    /\ jit.status = "returned"
    /\ X86Symbols(jit.c) = {"stackSize", "data", "pow"}
    /\ \E k \in 1..Len(jit.fn.code) : jit.fn.code[k].target = FnTarget("pow")

\* A Compiler object that has compiled nothing and whose integers are zero.
FreshCompiler == [code |-> <<>>, sp |-> 0, stackSize |-> 0]

\* C6: the Function returned by Compiler::compile(T) depends on T alone,
\* not on what the object compiled before (nor on its uninitialised
\* fields): it is the Function a fresh object returns, bytes and stackSize.
C6_CompileIdempotent ==
    pc # "start" => func = FunctionOf(CompilerCompile(FreshCompiler, tree))

\* Witness of C6: a second compile by the same object, of a one-leaf tree.
C6_Witness ==
    /\ pc = "compiled"
    /\ ncomp = 2
    /\ func.stackSize = SizeofDouble
    /\ Len(func.code) = 10

(***************************************************************************)
(* Properties of the REPL.                                                 *)
(***************************************************************************)
\* C7: the loop of main ends when the input reaches its end or when the
\* line `exit` is read: after either event no further prompt is written.
C7_NoPromptAfterEnd ==
    [][(repl.eof \/ (repl.str = Exit /\ repl.phase \in {"dispatch", "returned"}))
           => repl'.prompts = repl.prompts]_vars

\* The `exit` half of C7: once `exit` is read no prompt is written, and
\* main returns 0.
C7_ExitReturns ==
    [][(repl.str = Exit /\ repl.phase \in {"dispatch", "returned"})
           => /\ repl'.prompts = repl.prompts
              /\ repl'.phase = "returned"
              /\ repl'.code = 0]_vars

\* The message of the exception the line just evaluated raised.
LineError ==
    IF front.result.err # NoError THEN front.result.err
    ELSE IF jit.status = "invalid byte code" THEN <<"invalid byte code">>
    ELSE NoError

\* The line just evaluated is not the first that raised an error.
AfterError == repl.errors > (IF LineError # NoError THEN 1 ELSE 0)

\* C8: a line whose evaluation raises an error writes the one line
\* `error: <message>` and no result, and the loop goes on (main returns on
\* `exit` only); every line evaluated after it yields what a session that
\* starts with it yields: the same parse, the same Function, the same
\* native code, and an output the fresh session may write.
C8_ErrorsLeaveNoState ==
    /\ repl.phase = "returned" => repl.str = Exit
    /\ (repl.phase = "newline" /\ repl.str # Test) =>
         /\ LineError # NoError => repl.printed = <<PromptText, ErrorLine(LineError)>>
         /\ AfterError =>
              \A c0 \in CompilerObjects :
                 \A e \in {Evaluate(ParserObject, c0, repl.str)} :
                    /\ e.result = front.result
                    /\ e.parser = front.parser
                    /\ e.err = LineError
                    /\ e.err = NoError =>
                         /\ e.compiler = compiler
                         /\ e.func = func
                         /\ e.jit.fn = jit.fn
                    /\ Tail(repl.printed) \in Written(e)

\* Witness of C8: `1+5` evaluated, and its result written, after a line
\* that raised an error.
C8_Witness ==
    /\ repl.phase = "newline"
    /\ repl.str = <<"1", "+", "5">>
    /\ AfterError
    /\ LineError = NoError
    /\ repl.printed = <<PromptText, Objdump(jit), ValueLine(cpu.value)>>
    /\ tree = BinaryNode("PlusNode", ValueNode(Num(1)), ValueNode(Num(5)))

(***************************************************************************)
(* Properties of the code VM::compile emits, stated on the machine that    *)
(* runs it.                                                                *)
(***************************************************************************)
\* The locals of VM::compile after the first o opcodes of f.
RECURSIVE VMCompilePrefix(_, _)
VMCompilePrefix(f, o) ==
    IF o = 0 THEN VMCompileEntry(f) ELSE VMCompileStep(f, VMCompilePrefix(f, o - 1))

\* The locals of VM::run after the first o opcodes of the code of v.
RECURSIVE VMRunPrefix(_, _)
VMRunPrefix(v, o) ==
    IF o = 0 THEN VMRunEntry(v) ELSE VMRunStep(v, VMRunPrefix(v, o - 1))

\* Opcodes of the longest program of the back end: a Push per leaf, an
\* operator per inner node, Ret.
MaxOpcodes == 2 * MaxLeaves

\* The k-th operand (in push order, from 1) of the logical operand stack
\* held by the locals r of VM::run, and of the stack after the first o
\* opcodes; the number of operands after the first o opcodes.
OperandOf(r, k) == r.stack[vm.stackSize - k + 1]
Operand(o, k) == OperandOf(VMRunPrefix(vm, o), k)
Operands(o) == RunDepth(vm, VMRunPrefix(vm, o))

\* Index of the first item emitted after the locals j of VM::compile, and
\* after the first o opcodes: the machine is at the boundary after opcode
\* o when cpu.ip has this value.
BoundaryOf(j) == Len(j.c.code) + 1
Boundary(o) == BoundaryOf(VMCompilePrefix(func, o))

\* The double a the machine holds is the operand b: the same term, a
\* constant of the pool being possibly indeterminate (C15).
RECURSIVE Holds(_, _)
Holds(a, b) ==
    \/ a = Garbage /\ b[1] = "num"
    \/ a[1] \notin Operators /\ a = b
    \/ /\ a[1] \in Operators
       /\ b[1] = a[1]
       /\ \/ Holds(a[2], b[2]) /\ Holds(a[3], b[3])
          \/ a[1] \in {"+", "*"} /\ Holds(a[2], b[3]) /\ Holds(a[3], b[2])

\* The spill slot [EBP - 8k] has been stored and holds operand k of the
\* stack r of VM::run.
SlotHolds(r, k) ==
    /\ cpu.ebp - 8 * k \in DOMAIN cpu.mem
    /\ Holds(cpu.mem[cpu.ebp - 8 * k], OperandOf(r, k))

\* The smaller of two integers.
Min(a, b) == IF a < b THEN a ELSE b

\* The layout of C11 while the machine is in the code of one opcode: j and
\* r are the locals of VM::compile and VM::run before the opcode, r2 those
\* of VM::run after it, end the index of the first item after its code.
SpillLayoutAt(j, r, end, r2) ==
    (cpu.ip >= BoundaryOf(j) /\ cpu.ip < end) =>
        /\ j.sp = 8 * RunDepth(vm, r)
        /\ cpu.ip = BoundaryOf(j) =>
             /\ Len(cpu.st) = 1
             /\ Holds(cpu.st[1], OperandOf(r, RunDepth(vm, r)))
             /\ \A k \in 1..(RunDepth(vm, r) - 1) : SlotHolds(r, k)
        /\ \A k \in 1..(Min(RunDepth(vm, r), RunDepth(vm, r2)) - 1) : SlotHolds(r, k)

\* SpillLayoutAt at every opcode from the one after j and r on whose code
\* the machine has reached.  The code of Ret, the last opcode, runs to the
\* end of the function.
RECURSIVE SpillLayoutFrom(_, _)
RECURSIVE SpillLayoutNext(_, _, _, _)
SpillLayoutFrom(j, r) ==
    (j.status = "running" /\ j.ip < Len(func.code) /\ cpu.ip >= BoundaryOf(j)) =>
        IF func.code[j.ip + 1] = Byte(Ret)
        THEN SpillLayoutAt(j, r, Len(jit.fn.code) + 1, VMRunStep(vm, r))
        ELSE SpillLayoutNext(j, r, VMCompileStep(func, j), VMRunStep(vm, r))
SpillLayoutNext(j, r, j2, r2) ==
    SpillLayoutAt(j, r, BoundaryOf(j2), r2) /\ SpillLayoutFrom(j2, r2)

\* C11: at every opcode boundary after the first Push the x87 stack holds
\* exactly one value, the top operand, and the lower operands lie in the
\* spill slots [EBP-8], ..., [EBP-(sp-8)] in push order, sp being the shadow
\* stack pointer of VM::compile at that boundary; while the code of an
\* opcode runs, the slot of every operand that is pending before and after
\* the opcode keeps that operand.
C11_SpillLayout ==
    (pc = "call" /\ cpu.status = "running") =>
        SpillLayoutFrom(VMCompilePrefix(func, 1), VMRunPrefix(vm, 1))

\* Witness of C11: the boundary after the third Push of a program, two
\* operands spilled and the third in ST0, every constant read as stored.
C11_Witness ==
    /\ pc = "call"
    /\ cpu.status = "running"
    /\ \E o \in 1..MaxOpcodes :
         /\ VMCompilePrefix(func, o).status = "running"
         /\ cpu.ip = Boundary(o)
         /\ Operands(o) = 3
    /\ cpu.st = <<Num(3)>>
    /\ {cpu.ebp - 8, cpu.ebp - 16} \subseteq DOMAIN cpu.mem
    /\ cpu.mem[cpu.ebp - 8] = Num(1)
    /\ cpu.mem[cpu.ebp - 16] = Num(2)

\* Opcode o + 1 of the program is Pow.
PowFollows(o) ==
    /\ VMCompilePrefix(func, o).status = "running"
    /\ func.code[VMCompilePrefix(func, o).ip + 1] = Byte(Pow)

\* The mnemonic, base register and displacement of item k of the function.
Emitted(k) == <<jit.fn.code[k].op, jit.fn.code[k].base, jit.fn.code[k].disp>>

\* What C12 says of one Pow opcode while the machine is in its code or at
\* the boundary after it: j and r are the locals of VM::compile and VM::run
\* before the opcode, j2 and r2 after it.
PowArgumentsAt(j, r, j2, r2) ==
    (/\ func.code[j.ip + 1] = Byte(Pow)
     /\ cpu.ip >= BoundaryOf(j)
     /\ cpu.ip <= BoundaryOf(j2)) =>
        /\ j2.sp = j.sp - 8
        /\ BoundaryOf(j2) = BoundaryOf(j) + 4
        /\ Emitted(BoundaryOf(j)) = <<"fldl", "EBP", -8 * (RunDepth(vm, r) - 1)>>
        /\ Emitted(BoundaryOf(j) + 1) = <<"fstpl", "ESP", 0>>
        /\ Emitted(BoundaryOf(j) + 2) = <<"fstpl", "ESP", 8>>
        /\ jit.fn.code[BoundaryOf(j) + 3].op = "call"
        /\ jit.fn.code[BoundaryOf(j) + 3].target = FnTarget("pow")
        /\ cpu.esp = cpu.ebp - PatchedFrame
        /\ cpu.esp + 16 <= cpu.ebp - 8 * (RunDepth(vm, r) - 2)
        /\ cpu.ip >= BoundaryOf(j) + 3 =>
             /\ {cpu.esp, cpu.esp + 8} \subseteq DOMAIN cpu.mem
             /\ Holds(cpu.mem[cpu.esp], OperandOf(r, RunDepth(vm, r) - 1))
             /\ Holds(cpu.mem[cpu.esp + 8], OperandOf(r, RunDepth(vm, r)))
             /\ \A k \in 1..(RunDepth(vm, r) - 2) : SlotHolds(r, k)
        /\ cpu.ip = BoundaryOf(j2) =>
             /\ Len(cpu.st) = 1
             /\ Holds(cpu.st[1],
                      <<"pow", OperandOf(r, RunDepth(vm, r) - 1),
                               OperandOf(r, RunDepth(vm, r))>>)

\* PowArgumentsAt at every opcode from the one after j and r on whose code
\* the machine has reached, up to Ret, the last opcode.
RECURSIVE PowArgumentsFrom(_, _)
RECURSIVE PowArgumentsNext(_, _, _, _)
PowArgumentsFrom(j, r) ==
    (/\ j.status = "running"
     /\ j.ip < Len(func.code)
     /\ func.code[j.ip + 1] # Byte(Ret)
     /\ cpu.ip >= BoundaryOf(j)) =>
        PowArgumentsNext(j, r, VMCompileStep(func, j), VMRunStep(vm, r))
PowArgumentsNext(j, r, j2, r2) ==
    PowArgumentsAt(j, r, j2, r2) /\ PowArgumentsFrom(j2, r2)

\* C12: for every Pow opcode the emitted code reloads the left operand,
\* stores it at [ESP] and the right operand at [ESP+8], and calls pow; the
\* 16 bytes [ESP, ESP+16) lie inside the frame of the prologue and below
\* the spill slot of every lower operand still pending; after the call ST0
\* holds the only value, pow(left, right), and sp is 8 less.
C12_PowArguments ==
    (/\ pc = "call"
     /\ cpu.status = "running"
     /\ \E i \in 1..Len(func.code) : func.code[i] = Byte(Pow)) =>
        PowArgumentsFrom(VMCompilePrefix(func, 1), VMRunPrefix(vm, 1))

\* Witness of C12: pow has returned in the function of `1 + 2 ^ 3`, its
\* arguments 2 and 3 at [ESP] and [ESP+8], the operand 1 still in its slot.
C12_Witness ==
    /\ pc = "call"
    /\ cpu.status = "running"
    /\ \E o \in 1..MaxOpcodes : PowFollows(o) /\ cpu.ip = Boundary(o + 1)
    /\ cpu.st = <<<<"pow", Num(2), Num(3)>>>>
    /\ {cpu.esp, cpu.esp + 8, cpu.ebp - 8} \subseteq DOMAIN cpu.mem
    /\ cpu.mem[cpu.esp] = Num(2)
    /\ cpu.mem[cpu.esp + 8] = Num(3)
    /\ cpu.mem[cpu.ebp - 8] = Num(1)

(***************************************************************************)
(* The variant that keeps the operands on the native stack (lines          *)
(* 834-1398).  Its Compiler holds the code alone (lines 1024-1045), its    *)
(* VM::run works on a std::stack (lines 862-926) and its VM::compile       *)
(* (lines 928-1011) emits, for each opcode, code that pushes and pops      *)
(* doubles at [ESP].  An emitted item is [op, disp, val]: mnemonic,        *)
(* displacement from ESP of its memory operand, immediate.  The machine    *)
(* stack is kept in cells of 4 bytes; a double is two halves.              *)
(***************************************************************************)
\* Node::compile (lines 1054-1170): the bytes appended to code.
RECURSIVE StackNodeCompile(_, _)
StackNodeCompile(n, code) ==
    IF n[1] = "ValueNode"
    THEN Append(code, Byte(Push)) \o DoubleBytes(n[2])
    ELSE Append(StackNodeCompile(n[3], StackNodeCompile(n[2], code)),
                Byte(NodeByteCode(n[1])))

\* Compiler::compile (lines 1027-1034)
StackCompilerCompile(t) == Append(StackNodeCompile(t, <<>>), Byte(Ret))

\* The locals of VM::run(code) on entry (lines 863-866).
StackVMRunEntry == [ip |-> 0, stack |-> <<>>, status |-> "running", value |-> Garbage]

\* One iteration of the loop of VM::run(code) (lines 868-923); top() and
\* pop() of an empty std::stack are undefined behaviour.
StackVMRunStep(code, r) ==
    IF r.ip >= Len(code) THEN [r EXCEPT !.status = "ub"]
    ELSE
    LET b == code[r.ip + 1]
        n == Len(r.stack)
    IN  CASE b = Byte(Push) ->
               [r EXCEPT !.stack = Append(@, ReadDouble(code, r.ip + 2)),
                         !.ip = r.ip + 1 + SizeofDouble]
          [] b \in {Byte(Add), Byte(Sub), Byte(Mul), Byte(Div), Byte(Pow)} ->
               IF n >= 2
               THEN [r EXCEPT !.stack = Append(SubSeq(@, 1, n - 2),
                                   <<ByteCodeOperator(b[2]), r.stack[n - 1], r.stack[n]>>),
                              !.ip = r.ip + 1]
               ELSE [r EXCEPT !.status = "ub"]
          [] b = Byte(Ret) ->
               IF n >= 1
               THEN [r EXCEPT !.status = "returned", !.value = r.stack[n]]
               ELSE [r EXCEPT !.status = "ub"]
          [] OTHER -> [r EXCEPT !.status = "invalid byte code"]

StackItem(op, disp, val) == [op |-> op, disp |-> disp, val |-> val]

\* *reinterpret_cast<const int *>(code.data() + i): the half of a double
\* whose 4 bytes start at index i (1-based) of code.
Half(v, h) == <<"half", v, h>>
ReadInt(code, i) ==
    IF /\ i + 3 <= Len(code)
       /\ code[i][1] = "d"
       /\ code[i][3] \in {0, 4}
       /\ \A k \in 0..3 : code[i + k] = DoubleByte(code[i][2], code[i][3] + k)
    THEN Half(code[i][2], code[i][3] \div 4)
    ELSE Garbage

\* Lines 929-933: the locals on entry and the prologue push EBP; mov ESP, EBP.
StackVMCompileEntry ==
    [ip |-> 0, status |-> "running", fn |-> <<>>,
     c |-> <<StackItem("push", 0, NoValue), StackItem("mov", 0, NoValue)>>]

\* The x87 instruction emitted for each arithmetic opcode (lines 946-988).
StackArithInstr(b) ==
    CASE b = Add -> "faddp"
      [] b = Sub -> "fsubp"
      [] b = Mul -> "fmulp"
      [] b = Div -> "fdivp"

\* case Push (lines 936-944)
StackVMCompilePush(code, j) ==
    [j EXCEPT !.c = @ \o <<StackItem("sub", 0, 8),
                           StackItem("movl", 0, ReadInt(code, j.ip + 2)),
                           StackItem("movl", 4, ReadInt(code, j.ip + 6))>>,
              !.ip = j.ip + 1 + SizeofDouble]

\* case Add, Sub, Mul, Div (lines 946-988)
StackVMCompileArith(j, b) ==
    [j EXCEPT !.c = @ \o <<StackItem("fldl", 0, NoValue),
                           StackItem("fldl", 8, NoValue),
                           StackItem(StackArithInstr(b), 0, NoValue),
                           StackItem("add", 0, 8),
                           StackItem("fstpl", 0, NoValue)>>,
              !.ip = j.ip + 1]

\* case Pow (lines 990-992): ip++, and nothing is emitted.
StackVMCompilePow(j) == [j EXCEPT !.ip = j.ip + 1]

\* case Ret (lines 994-1003); compileFunction() copies the buffer.
StackVMCompileRet(j) ==
    LET c == j.c \o <<StackItem("fldl", 0, NoValue), StackItem("leave", 0, NoValue),
                      StackItem("ret", 0, NoValue)>>
    IN  [j EXCEPT !.c = c, !.fn = c, !.status = "returned"]

\* One iteration of the loop of VM::compile(code) (lines 934-1008); when
\* ip reaches code.size() the loop ends and an empty Function is returned.
StackVMCompileStep(code, j) ==
    IF j.ip >= Len(code) THEN [j EXCEPT !.status = "returned", !.fn = <<>>]
    ELSE
    LET b == code[j.ip + 1]
    IN  CASE b = Byte(Push) -> StackVMCompilePush(code, j)
          [] b \in {Byte(Add), Byte(Sub), Byte(Mul), Byte(Div)} ->
               StackVMCompileArith(j, b[2])
          [] b = Byte(Pow) -> StackVMCompilePow(j)
          [] b = Byte(Ret) -> StackVMCompileRet(j)
          [] OTHER -> [j EXCEPT !.status = "invalid byte code"]

\* A load of 8 bytes at address a of the machine stack.
LoadDouble(m, a) ==
    IF /\ {a, a + 4} \subseteq DOMAIN m.mem
       /\ m.mem[a][1] = "half"
       /\ m.mem[a] = Half(m.mem[a][2], 0)
       /\ m.mem[a + 4] = Half(m.mem[a][2], 1)
    THEN m.mem[a][2]
    ELSE Garbage

\* A store of 4 bytes.
StoreInt(mem, a, v) == [x \in DOMAIN mem \cup {a} |-> IF x = a THEN v ELSE mem[x]]

\* A store of 8 bytes.
StoreDouble(mem, a, v) == StoreInt(StoreInt(mem, a, Half(v, 0)), a + 4, Half(v, 1))

\* ST1 after faddp, fsubp, fmulp, fdivp, which then pop ST0.  Which of
\* ST0 - ST1 and ST1 - ST0 the bytes of fsubp compute (and likewise for
\* fdivp) is the assembler's choice of encoding: the term keeps the
\* mnemonic and both registers.
X87ArithPop(op, st0, st1) ==
    CASE op = "faddp" -> <<"+", st1, st0>>
      [] op = "fmulp" -> <<"*", st1, st0>>
      [] OTHER -> <<op, st0, st1>>

\* One instruction of the function of this variant.
StackNativeStep(fn, m) ==
    IF m.ip > Len(fn) THEN [m EXCEPT !.status = "ub"]
    ELSE
    LET i == fn[m.ip]
        next == [m EXCEPT !.ip = m.ip + 1]
        a == m.esp + i.disp
    IN  CASE i.op = "push" -> [next EXCEPT !.esp = m.esp - 4]
          [] i.op = "mov" -> [next EXCEPT !.ebp = m.esp]
          [] i.op = "sub" -> [next EXCEPT !.esp = m.esp - i.val]
          [] i.op = "add" -> [next EXCEPT !.esp = m.esp + i.val]
          [] i.op = "movl" -> [next EXCEPT !.mem = StoreInt(m.mem, a, i.val)]
          [] i.op = "fldl" -> [next EXCEPT !.st = <<LoadDouble(m, a)>> \o m.st]
          [] i.op = "fstpl" ->
               [next EXCEPT !.st = PopST(m), !.mem = StoreDouble(m.mem, a, ST0(m))]
          [] i.op \in {"faddp", "fsubp", "fmulp", "fdivp"} ->
               IF Len(m.st) >= 2
               THEN [next EXCEPT !.st = <<X87ArithPop(i.op, m.st[1], m.st[2])>>
                                           \o SubSeq(m.st, 3, Len(m.st))]
               ELSE [next EXCEPT !.st = <<Garbage>>]
          [] i.op = "leave" -> [next EXCEPT !.esp = m.ebp + 4]
          [] i.op = "ret" -> [next EXCEPT !.status = "returned", !.value = ST0(m)]
          [] OTHER -> [m EXCEPT !.status = "ub"]

(***************************************************************************)
(* The back end of this variant as `test` drives it (lines 1353-1382):     *)
(* compiler.compile, vm.compile, tree->eval(), vm.run(code), f().  func    *)
(* holds the code vector.                                                  *)
(***************************************************************************)
StackInit ==
    /\ pc = "stack:start"
    /\ tree \in Trees
    /\ compiler = FreshCompiler
    /\ func = <<>>
    /\ ncomp = 0
    /\ jit = [StackVMCompileEntry EXCEPT !.status = "idle"]
    /\ vm = VMObject
    /\ run = [StackVMRunEntry EXCEPT !.status = "idle"]
    /\ cpu = CpuIdle
    /\ results = NoResults
    /\ front = FrontIdle
    /\ repl = ReplIdle

\* std::vector<byte> code = compiler.compile(tree)
StackDoCompile ==
    /\ pc = "stack:start"
    /\ func' = StackCompilerCompile(tree)
    /\ pc' = "stack:compiled"
    /\ UNCHANGED <<tree, compiler, ncomp, jit, vm, run, cpu, results, front, repl>>

\* vm.compile(code): entry and prologue.
StackDoVMCompileEnter ==
    /\ pc = "stack:compiled"
    /\ jit' = StackVMCompileEntry
    /\ pc' = "stack:jit"
    /\ UNCHANGED <<tree, compiler, func, ncomp, vm, run, cpu, results, front, repl>>

\* vm.compile(code): one opcode.
StackDoVMCompileStep ==
    /\ pc = "stack:jit"
    /\ jit.status = "running"
    /\ jit' = StackVMCompileStep(func, jit)
    /\ pc' = IF jit'.status = "running" THEN "stack:jit" ELSE "stack:jitted"
    /\ UNCHANGED <<tree, compiler, func, ncomp, vm, run, cpu, results, front, repl>>

\* tree->eval()
StackDoTreeEval ==
    /\ pc = "stack:jitted"
    /\ jit.status = "returned"
    /\ results' = [results EXCEPT !.tree = NodeEval(tree)]
    /\ pc' = "stack:evaluated"
    /\ UNCHANGED <<tree, compiler, func, ncomp, jit, vm, run, cpu, front, repl>>

\* vm.run(code): entry.
StackDoRunEnter ==
    /\ pc = "stack:evaluated"
    /\ run' = StackVMRunEntry
    /\ pc' = "stack:run"
    /\ UNCHANGED <<tree, compiler, func, ncomp, jit, vm, cpu, results, front, repl>>

\* vm.run(code): one opcode.
StackDoRunStep ==
    /\ pc = "stack:run"
    /\ run.status = "running"
    /\ run' = StackVMRunStep(func, run)
    /\ IF run'.status = "running"
       THEN pc' = "stack:run" /\ UNCHANGED results
       ELSE pc' = "stack:ran" /\ results' = [results EXCEPT !.vm = run'.value]
    /\ UNCHANGED <<tree, compiler, func, ncomp, jit, vm, cpu, front, repl>>

\* f(): the call of the native function.
StackDoCallEnter ==
    /\ pc = "stack:ran"
    /\ cpu' = NativeEntry
    /\ pc' = "stack:call"
    /\ UNCHANGED <<tree, compiler, func, ncomp, jit, vm, run, results, front, repl>>

\* f(): one instruction.
StackDoCallStep ==
    /\ pc = "stack:call"
    /\ cpu.status = "running"
    /\ cpu' = StackNativeStep(jit.fn, cpu)
    /\ IF cpu'.status = "running"
       THEN pc' = "stack:call" /\ UNCHANGED results
       ELSE pc' = "stack:done" /\ results' = [results EXCEPT !.native = cpu'.value]
    /\ UNCHANGED <<tree, compiler, func, ncomp, jit, vm, run, front, repl>>

StackNext ==
    \/ StackDoCompile
    \/ StackDoVMCompileEnter
    \/ StackDoVMCompileStep
    \/ StackDoTreeEval
    \/ StackDoRunEnter
    \/ StackDoRunStep
    \/ StackDoCallEnter
    \/ StackDoCallStep

SpecStack == StackInit /\ [][StackNext]_vars

(***************************************************************************)
(* Properties of the variant that keeps the operands on the native stack.  *)
(***************************************************************************)
\* The locals of VM::compile(code) after the first o opcodes.
RECURSIVE StackVMCompilePrefix(_, _)
StackVMCompilePrefix(code, o) ==
    IF o = 0 THEN StackVMCompileEntry
    ELSE StackVMCompileStep(code, StackVMCompilePrefix(code, o - 1))

\* The locals of VM::run(code) after the first o opcodes.
RECURSIVE StackVMRunPrefix(_, _)
StackVMRunPrefix(code, o) ==
    IF o = 0 THEN StackVMRunEntry
    ELSE StackVMRunStep(code, StackVMRunPrefix(code, o - 1))

\* Index of the first item emitted for opcode o + 1.
StackBoundary(o) == Len(StackVMCompilePrefix(func, o).c) + 1

\* Opcode o + 1 of the code is Pow.
StackPowFollows(o) ==
    /\ StackVMCompilePrefix(func, o).status = "running"
    /\ func[StackVMCompilePrefix(func, o).ip + 1] = Byte(Pow)

\* The double a of the machine is the double b of VM::run: the same term,
\* fsubp and fdivp standing for - and / of their two registers in the
\* order that agrees.
RECURSIVE StackSame(_, _)
StackSame(a, b) ==
    IF a[1] \in {"fsubp", "fdivp"}
    THEN /\ b[1] = (IF a[1] = "fsubp" THEN "-" ELSE "/")
         /\ \/ StackSame(a[2], b[2]) /\ StackSame(a[3], b[3])
            \/ StackSame(a[2], b[3]) /\ StackSame(a[3], b[2])
    ELSE IF a[1] \in Operators
    THEN /\ b[1] = a[1]
         /\ \/ StackSame(a[2], b[2]) /\ StackSame(a[3], b[3])
            \/ a[1] \in {"+", "*"} /\ StackSame(a[2], b[3]) /\ StackSame(a[3], b[2])
    ELSE a = b

\* The tree has a PowerNode.
RECURSIVE HasPower(_)
HasPower(n) ==
    /\ n[1] # "ValueNode"
    /\ (n[1] = "PowerNode" \/ HasPower(n[2]) \/ HasPower(n[3]))

\* The native function agrees with VM::run(code): at the boundary after
\* opcode o the native stack holds as many doubles as the std::stack, the
\* same double on top; the function returns what VM::run and the tree do.
StackModesAgree ==
    /\ (pc = "stack:call" /\ cpu.status = "running") =>
         \A o \in 1..MaxOpcodes :
            (/\ StackVMCompilePrefix(func, o).status = "running"
             /\ cpu.ip = StackBoundary(o)) =>
                /\ cpu.ebp - cpu.esp = 8 * Len(StackVMRunPrefix(func, o).stack)
                /\ StackSame(LoadDouble(cpu, cpu.esp),
                             StackVMRunPrefix(func, o).stack[Len(StackVMRunPrefix(func, o).stack)])
    /\ pc = "stack:done" =>
         /\ cpu.status = "returned"
         /\ results.vm = results.tree
         /\ StackSame(results.native, results.vm)

\* C13: in the variant that keeps operands on the native stack, the code
\* emitted for a Pow opcode calls pow, so that after every opcode the
\* native stack holds the operands VM::run holds (after Pow one fewer, pow(left,
\* right) on top) and the function returns what the tree and the bytecode
\* return: that of `Push a; Push b; Pow; Ret` returns pow(a, b).
C13_PowCallsPow ==
    /\ (pc \in {"stack:jitted", "stack:call", "stack:done"} /\ jit.status = "returned") =>
         \A o \in 1..MaxOpcodes :
            StackPowFollows(o) =>
                \E k \in StackBoundary(o)..(StackBoundary(o + 1) - 1) : jit.fn[k].op = "call"
    /\ StackModesAgree

\* Without a PowerNode in the tree the modes of this variant agree.
C13_AgreeWithoutPower == HasPower(tree) \/ StackModesAgree

\* The function of `1 ^ 2` has returned.
C13_PowReturned ==
    /\ pc = "stack:done"
    /\ tree = BinaryNode("PowerNode", ValueNode(Num(1)), ValueNode(Num(2)))
    /\ results.vm = <<"pow", Num(1), Num(2)>>
    /\ results.native = Num(2)

(***************************************************************************)
(* The tree interpreter, call by call (Node::eval, lines 229-339; the      *)
(* switch of BinaryNode::eval, lines 621-641).  run.frames holds the       *)
(* activations of eval(), the innermost last: node is the node evaluated,  *)
(* called the operands whose eval() has been called, active the operand    *)
(* being evaluated, vals the values the operands returned.  The two calls  *)
(* in `left->eval() + right->eval()` and in `pow(left->eval(),             *)
(* right->eval())` are indeterminately sequenced: either runs first, and   *)
(* they never overlap.                                                     *)
(***************************************************************************)
\* Operand positions of a binary node: left and right.
Left == 2
Right == 3

\* The activation of n->eval() on entry.
EvalFrame(n) == [node |-> n, called |-> {}, active |-> 0, vals |-> [c \in {} |-> NoValue]]

\* The activation of a binary node after its operand c was called.
EvalCalled(f, c) == [f EXCEPT !.called = @ \cup {c}, !.active = c]

\* The activation of a binary node after its active operand returned v.
EvalReturned(f, v) ==
    [f EXCEPT !.vals = [c \in DOMAIN f.vals \cup {f.active} |->
                           IF c = f.active THEN v ELSE f.vals[c]],
              !.active = 0]

\* The frames after the innermost eval() returned v.
EvalReturn(frames, v) ==
    LET n == Len(frames)
    IN  IF n = 1 THEN <<>>
        ELSE Append(SubSeq(frames, 1, n - 2), EvalReturned(frames[n - 1], v))

\* The value a binary node returns once both operands have been evaluated.
EvalApply(f) == <<NodeOperator(f.node[1]), f.vals[Left], f.vals[Right]>>

EvalIdle == [frames |-> <<>>, status |-> "idle"]

EvalInit ==
    /\ pc = "eval:start"
    /\ tree \in Trees
    /\ compiler = FreshCompiler
    /\ func = NoFunction
    /\ ncomp = 0
    /\ jit = JitIdle
    /\ vm = VMObject
    /\ run = EvalIdle
    /\ cpu = CpuIdle
    /\ results = NoResults
    /\ front = FrontIdle
    /\ repl = ReplIdle

\* tree->eval() is called.
DoEvalEnter ==
    /\ pc = "eval:start"
    /\ run' = [frames |-> <<EvalFrame(tree)>>, status |-> "running"]
    /\ pc' = "eval:running"
    /\ UNCHANGED <<tree, compiler, func, ncomp, jit, vm, cpu, results, front, repl>>

\* A binary node calls eval() of an operand it has not called yet.
DoEvalOperand ==
    /\ pc = "eval:running"
    /\ run.frames # <<>>
    /\ LET n == Len(run.frames)
           f == run.frames[n]
       IN  /\ f.node[1] # "ValueNode"
           /\ \E c \in {Left, Right} \ f.called :
                run' = [run EXCEPT !.frames =
                          Append([@ EXCEPT ![n] = EvalCalled(f, c)], EvalFrame(f.node[c]))]
    /\ UNCHANGED <<pc, tree, compiler, func, ncomp, jit, vm, cpu, results, front, repl>>

\* The innermost eval() returns: ValueNode::eval its value, a binary node
\* the operator applied to the values of its operands.
DoEvalReturn ==
    /\ pc = "eval:running"
    /\ run.frames # <<>>
    /\ LET f == run.frames[Len(run.frames)]
       IN  /\ f.node[1] = "ValueNode" \/ f.called = {Left, Right}
           /\ \E v \in {IF f.node[1] = "ValueNode" THEN f.node[2] ELSE EvalApply(f)} :
                /\ run' = [run EXCEPT !.frames = EvalReturn(run.frames, v),
                                      !.status = IF Len(run.frames) = 1 THEN "returned"
                                                 ELSE "running"]
                /\ IF Len(run.frames) = 1
                   THEN pc' = "eval:done" /\ results' = [results EXCEPT !.tree = v]
                   ELSE UNCHANGED <<pc, results>>
    /\ UNCHANGED <<tree, compiler, func, ncomp, jit, vm, cpu, front, repl>>

EvalNext ==
    \/ DoEvalEnter
    \/ DoEvalOperand
    \/ DoEvalReturn

SpecEval == EvalInit /\ [][EvalNext]_vars

\* C14: in every activation of a binary node, eval() of the right operand
\* is called only after eval() of the left operand has returned.
C14_LeftBeforeRight ==
    pc = "eval:running" =>
        \A k \in 1..Len(run.frames) :
            Right \in run.frames[k].called => Left \in DOMAIN run.frames[k].vals

\* Whatever the order of the two calls, they do not overlap and eval()
\* returns the operator applied to the left and the right value.
C14_ValueInAnyOrder ==
    /\ pc = "eval:running" =>
         \A k \in 1..Len(run.frames) :
            /\ DOMAIN run.frames[k].vals \subseteq run.frames[k].called
            /\ run.frames[k].active # 0 <=> k < Len(run.frames)
            /\ run.frames[k].called \ DOMAIN run.frames[k].vals \subseteq {run.frames[k].active}
    /\ pc = "eval:done" => results.tree = NodeEval(tree)

\* eval() of the right operand of `1 ^ 2` running, that of the left not
\* yet called.
C14_RightFirst ==
    /\ pc = "eval:running"
    /\ tree = BinaryNode("PowerNode", ValueNode(Num(1)), ValueNode(Num(2)))
    /\ Len(run.frames) = 2
    /\ run.frames[1].called = {Right}
    /\ run.frames[2].node = ValueNode(Num(2))

(***************************************************************************)
(* Properties of the constant pool of the function VM::compile returns.    *)
(***************************************************************************)
\* The constants of the leaves of a tree, left to right: the doubles its
\* program pushes, in order.
RECURSIVE Leaves(_)
Leaves(n) == IF n[1] = "ValueNode" THEN <<n[2]>> ELSE Leaves(n[2]) \o Leaves(n[3])

\* The items of the function that load from the pool, in code order.
PoolLoads == SelectSeq(jit.fn.code, LAMBDA i : i.sym = "data")

\* Index of the `ret` item of the function.
RetIndex == CHOOSE k \in 1..Len(jit.fn.code) : jit.fn.code[k].op = "ret"

\* The address relocate() patched for data.
DataTarget == PoolLoads[1].target

\* The k-th Push (from 0) loads from data + 8k, and the pool follows `ret`
\* contiguously with the k-th pushed constant in slot k, data being its
\* offset from the start of the code.
PoolLayout ==
    /\ Len(PoolLoads) = Len(Leaves(tree))
    /\ \A k \in 1..Len(PoolLoads) :
         /\ PoolLoads[k].op = "fldl"
         /\ PoolLoads[k].disp = SizeofDouble * (k - 1)
         /\ PoolLoads[k].target = DataTarget
    /\ Len(jit.fn.code) = RetIndex + Len(Leaves(tree))
    /\ \A k \in 1..Len(Leaves(tree)) :
         /\ jit.fn.code[RetIndex + k].op = "const"
         /\ jit.fn.code[RetIndex + k].val = Leaves(tree)[k]
         /\ jit.fn.starts[RetIndex + k] =
                jit.fn.starts[RetIndex] + 1 + SizeofDouble * (k - 1)
    /\ DataTarget[1] = "addr"
    /\ DataTarget[3] = jit.fn.starts[RetIndex + 1]

\* C15: the k-th Push is compiled to a load from data + 8k, the pool lies
\* right after `ret` with the k-th constant in slot k, and the address
\* patched for data lies in the executable region the returned Function
\* owns, not in the buffer of the x86::Compiler, which is gone when
\* VM::compile has returned: it is valid whenever the function is called.
C15_PoolInFunction ==
    (pc \in {"jitted", "allocated", "evaluated", "run", "ran", "call", "done"}
        /\ jit.status = "returned") =>
            /\ PoolLayout
            /\ DataTarget[2] = jit.fn.region
            /\ DataTarget[2] = "asm" => jit.alive

\* Apart from the region the address is in, the pool is laid out and
\* addressed as C15 says.
C15_PoolLayoutHolds ==
    (pc \in {"jitted", "allocated", "evaluated", "run", "ran", "call", "done"}
        /\ jit.status = "returned") => PoolLayout

\* The function of `1` is being called, data pointing into the buffer of
\* the x86::Compiler that VM::compile has destroyed.
C15_Dangling ==
    /\ pc = "call"
    /\ tree = ValueNode(Num(1))
    /\ DataTarget = AddrTarget("asm", jit.fn.starts[RetIndex + 1])
    /\ ~jit.alive

(***************************************************************************)
(* The bytecode loop of `test` (lines 533-556): one compiler.compile, one  *)
(* vm.allocate and vm.setCode, then vm.run() called again and again.       *)
(* results.vm is the sequence of the values the calls returned.            *)
(***************************************************************************)
RunsInit ==
    /\ pc = "runs:start"
    /\ tree = NoTree
    /\ compiler \in CompilerObjects
    /\ func = NoFunction
    /\ ncomp = 0
    /\ jit = JitIdle
    /\ vm = VMObject
    /\ run = RunIdle
    /\ cpu = CpuIdle
    /\ results = [NoResults EXCEPT !.vm = <<>>]
    /\ front = FrontIdle
    /\ repl = ReplIdle

\* Function func = compiler.compile(tree); vm.allocate(func.stackSize);
\* vm.setCode(func.code.data())
RunsAllocate ==
    /\ pc = "runs:start"
    /\ \E t \in Trees :
         /\ tree' = t
         /\ compiler' = CompilerCompile(compiler, t)
    /\ func' = FunctionOf(compiler')
    /\ vm' = VMSetCode(VMAllocate(vm, func'.stackSize), func'.code)
    /\ ncomp' = ncomp + 1
    /\ pc' = "runs:allocated"
    /\ UNCHANGED <<jit, run, cpu, results, front, repl>>

\* sum += vm.run(): entry of the next call.
RunsEnter ==
    /\ pc = "runs:allocated"
    /\ Len(results.vm) < MaxRuns
    /\ run' = VMRunEntry(vm)
    /\ pc' = "runs:run"
    /\ UNCHANGED <<tree, compiler, func, ncomp, jit, vm, cpu, results, front, repl>>

\* vm.run(): one opcode.
RunsStep ==
    /\ pc = "runs:run"
    /\ run.status = "running"
    /\ run' = VMRunStep(vm, run)
    /\ vm' = [vm EXCEPT !.stack = run'.stack]
    /\ IF run'.status = "running"
       THEN pc' = "runs:run" /\ UNCHANGED results
       ELSE pc' = "runs:allocated" /\ results' = [results EXCEPT !.vm = Append(@, run'.value)]
    /\ UNCHANGED <<tree, compiler, func, ncomp, jit, cpu, front, repl>>

RunsNext ==
    \/ RunsAllocate
    \/ RunsEnter
    \/ RunsStep

SpecRuns == RunsInit /\ [][RunsNext]_vars

\* Opcodes the current call of run() has executed.
RunOpcodes == CHOOSE o \in 0..MaxOpcodes : VMRunPrefix(vm, o).ip = run.ip

\* The slots (indices into the stack array, from 0) that opcode k of the
\* program writes, and the slots it reads.
SlotsWritten(k) ==
    LET r == VMRunPrefix(vm, k - 1)
    IN  CASE vm.code[r.ip + 1] = Byte(Push) -> {r.sp - 1}
          [] vm.code[r.ip + 1] = Byte(Ret) -> {}
          [] OTHER -> {r.sp + 1}
SlotsRead(k) ==
    LET r == VMRunPrefix(vm, k - 1)
    IN  CASE vm.code[r.ip + 1] = Byte(Push) -> {}
          [] vm.code[r.ip + 1] = Byte(Ret) -> {r.sp}
          [] OTHER -> {r.sp, r.sp + 1}

\* C16: after one allocate and setCode for a compiled program, every call
\* of run() returns the value of the first call; each call starts with sp
\* at the top of the one stack allocate made, reads only slots that call
\* wrote before, reads and writes only slots 0 .. stackSize - 1, and leaves
\* the allocation as it is.
C16_RunsRepeat ==
    pc \in {"runs:allocated", "runs:run"} =>
        /\ Len(vm.stack) = func.stackSize
        /\ vm.stackSize = func.stackSize
        /\ \A k \in 1..Len(results.vm) :
             /\ results.vm[k] = results.vm[1]
             /\ results.vm[k] = NodeEval(tree)
        /\ pc = "runs:run" =>
             /\ run.status \in {"running", "returned"}
             /\ VMRunPrefix(vm, 0).sp = vm.stackSize
             /\ run.sp = VMRunPrefix(vm, RunOpcodes).sp
             /\ run.status = "running" =>
                  /\ \A i \in SlotsWritten(RunOpcodes + 1) : InStack(vm, i)
                  /\ SlotsRead(RunOpcodes + 1)
                        \subseteq UNION {SlotsWritten(k) : k \in 1..RunOpcodes}
                  /\ \A i \in SlotsRead(RunOpcodes + 1) : InStack(vm, i)

\* Witness of C16: the third call of run() on the program of a tree of
\* three leaves is about to read two slots the first two calls have also
\* written, and those calls returned the same value.
C16_Witness ==
    /\ pc = "runs:run"
    /\ Len(results.vm) = 2
    /\ results.vm[2] = results.vm[1]
    /\ run.status = "running"
    /\ RunDepth(vm, run) = 3
    /\ Cardinality(SlotsRead(RunOpcodes + 1)) = 2

(***************************************************************************)
(* Properties of the parser's cursor.  getToken() is the only statement    *)
(* that moves the cursor, one token forward: the tokens it has moved over  *)
(* are those before the place where Parser::parse leaves it.               *)
(***************************************************************************)
\* C17: the token sequence of Lexer::lex ends with its only End token, and
\* Parser::parse, whether it returns or throws, leaves the cursor on a
\* token of the sequence, having moved over Number and `+-*/^()` tokens
\* only: it never moves past End, so check() reads no token beyond the
\* end of the vector.
C17_CursorWithinTokens ==
    front.phase \in {"lexed", "parsed"} =>
        /\ Len(front.tokens) >= 1
        /\ \A k \in 1..Len(front.tokens) :
             front.tokens[k].id = "e" <=> k = Len(front.tokens)
        /\ front.phase = "parsed" =>
             /\ front.result.token \in 1..Len(front.tokens)
             /\ front.parser.token = front.result.token
             /\ \A k \in 1..(front.result.token - 1) :
                  front.tokens[k].id \in {"n"} \cup Punctuation
             /\ front.result.err = NoError => front.result.token = Len(front.tokens)

\* Witness of C17: `( 2 ) ^ 5` parsed, the cursor having moved over all
\* five tokens and standing on End.
C17_Witness ==
    /\ front.phase = "parsed"
    /\ front.result.err = NoError
    /\ Len(front.tokens) = 6
    /\ front.result.token = 6
    /\ front.tokens[1].id = "("
    /\ front.tokens[6].id = "e"
    /\ front.result.n[1] = "PowerNode"

\* A parse that throws at End: `( 2` leaves the cursor on End.
C17_WitnessThrown ==
    /\ front.phase = "parsed"
    /\ front.result.err = <<"unmatched parentheses">>
    /\ Len(front.tokens) = 3
    /\ front.result.token = 3

====
